---- MODULE Spec2Model ----
(***************************************************************************)
(* A model of the SmartSave scraper core:                                  *)
(*   - SitemapParser.parse_sitemap / get_product_urls                      *)
(*       (scrapers/utils/sitemap_parser.py),                               *)
(*   - CaptchaSolverManager (scrapers/utils/captcha_solver.py),            *)
(*   - WalmartCanadaScraper's visit / crawl loop                           *)
(*       (scrapers/sites/walmart_canada.py).                               *)
(* Each component has its own specification over the shared variables;     *)
(* the variables of the other components stay at their initial values.     *)
(***************************************************************************)
EXTENDS Integers, Sequences, FiniteSets, TLC

VARIABLES
    \* ---- SitemapParser.parse_sitemap: arguments and locals
    sm_args,            \* [url, recursive, since, url_filter, max_urls]
    urls_yielded,       \* local counter urls_yielded
    visited_sitemaps,   \* local set visited_sitemaps
    sitemap_queue,      \* local list sitemap_queue
    sm_pc,              \* "loop" while the generator runs, "done" once it returned
    \* ---- what the traversal did (observations of the run)
    fetched,            \* the fetches made, in order: [url, kind of document got]
    yielded,            \* entries yielded so far, in order
    skipped,            \* URLs dequeued and skipped as already visited
    enqueued,           \* the distinct URLs put on sitemap_queue, by first enqueueing
    sm_last,            \* the last loop iteration: [op, url, status, entries, out]
    \* ---- CaptchaSolverManager
    mgr,                \* the manager: [enabled, primary_provider, fallback_provider,
                        \*               max_retries, solvers]
    mgr_pc,             \* "ready" after construction; after solve_perimeterx
                        \* "returned", or "raised" had an exception escaped;
                        \* "balances" after get_balances
    mgr_config,         \* the config dict the manager was constructed from
    mgr_balances,       \* the get_balances call: [called, queries, balances]
    mgr_calls,          \* the provider calls of the solve_perimeterx call, in order
    mgr_result,         \* the CaptchaSolution it returned
    \* ---- One provider call: TwoCaptchaSolver / CapSolver .solve_perimeterx
    prov,               \* the solver: [kind, timeout, poll_interval]
    prov_pc,            \* "called", "polling" inside the loop of _get_result,
                        \* "returned", or "raised" had an exception escaped
    prov_elapsed,       \* time.time() - start_time, in seconds
    prov_polls,         \* number of result requests made
    prov_last,          \* the last step: [op, raised, at, step]
    prov_result,        \* the CaptchaSolution returned
    \* ---- One call of filter_walmart_product_urls
    flt_url,            \* the argument, a string as its sequence of characters
    flt_pc,             \* "called" or "returned"
    flt_result,         \* the bool returned
    \* ---- One call of SitemapParser._parse_sitemap_xml
    xml_content,        \* the argument: the document the bytes spell
    xml_pc,             \* "called" or "returned"
    xml_result,         \* the tuple returned: [sitemap_urls, url_entries]
    \* ---- One fetch and parse of a sitemap URL (the try block of parse_sitemap)
    fetch_response,     \* what session.get gives for the URL
    fetch_pc,           \* "called", "fetched", "parsed", or "raised"
    fetch_content,      \* the bytes _fetch_sitemap_content returned
    fetch_result,       \* the tuple _parse_sitemap_xml returned for them
    \* ---- WalmartCanadaScraper
    page,               \* TRUE while playwright, browser, context and page are set
    session_warmed_up,
    browser_warmed,     \* the warmup pages were gone through in this browser session
    consecutive_errors,
    captcha_solve_attempts,
    captcha_solve_successes,
    fallback_to_dom,    \* config['extraction']['fallback_to_dom']
    last,               \* record of the last operation called on the scraper
    \* ---- scrape_from_sitemap: argument and locals
    crawl_pc,           \* "idle", "loop" inside the for loop, "returned", or
                        \* "raised" when an exception left the call
    max_products,
    entries_left,       \* entries of product_entries the loop has not reached
    scraped_count,
    checkpoints,        \* number of save_checkpoint calls
    crawl_result,       \* the count scrape_from_sitemap returned
    \* ---- the browser session of WalmartCanadaScraper, handle by handle
    handles,            \* self.playwright, self.browser, self.context, self.page:
                        \* TRUE is a live object, FALSE is None
    ses_pc,             \* "idle", run_demo inside its "try", at its "finally",
                        \* "returned" or "raised"
    demo_outcome,       \* how the try block of run_demo ended
    ses_last            \* record of the last operation on the session

sm_vars == <<sm_args, urls_yielded, visited_sitemaps, sitemap_queue, sm_pc,
             fetched, yielded, skipped, enqueued, sm_last>>

mgr_vars == <<mgr_config, mgr, mgr_pc, mgr_calls, mgr_result, mgr_balances>>

crawl_vars == <<page, session_warmed_up, browser_warmed, consecutive_errors,
                captcha_solve_attempts, captcha_solve_successes, fallback_to_dom,
                last, crawl_pc, max_products, entries_left, scraped_count,
                checkpoints, crawl_result>>

prov_vars == <<prov, prov_pc, prov_elapsed, prov_polls, prov_last, prov_result>>

flt_vars == <<flt_url, flt_pc, flt_result>>

xml_vars == <<xml_content, xml_pc, xml_result>>

fetch_vars == <<fetch_response, fetch_pc, fetch_content, fetch_result>>

ses_vars == <<handles, ses_pc, demo_outcome, ses_last>>

vars == <<sm_vars, mgr_vars, prov_vars, flt_vars, xml_vars, fetch_vars, ses_vars,
          crawl_vars>>

----------------------------------------------------------------------------
(* Bounds of the model *)

MaxNested == 2        \* <sitemap> elements per index document
MaxDocEntries == 2    \* <url> elements per url-set document
MaxUrlsArg == 2       \* largest max_urls argument tried
MaxFetches == 4       \* cap on the fetches of one traversal (never reached: 3 URLs)
MaxRetries == 2       \* largest max_retries configured
MaxEntries == 11      \* longest list of product entries crawled
MaxProductsArg == 2   \* largest max_products argument tried
MaxOvershoot == 2     \* visits are tried up to this far past max_consecutive_errors
MaxSolveAttempts == 1  \* cap on captcha_solve_attempts
MaxBalance == 2        \* largest account balance a provider reports
MaxTimeout == 7        \* largest solver timeout configured, in seconds
MaxLatency == 1        \* longest a result request takes, in seconds
MaxWarmupPages == 2    \* longest list of warmup pages configured
MaxPieces == 3         \* longest URL filtered, in pieces of text
MaxElements == 2       \* most <sitemap>/<url> elements in one parsed document

----------------------------------------------------------------------------
(* Generic helpers *)

\* All sequences over S of length at most n.
BSeq(S, n) == UNION {[1..k -> S] : k \in 0..n}

Range(s) == {s[i] : i \in 1..Len(s)}

\* Number of positions of s holding x.
Count(s, x) == Cardinality({i \in 1..Len(s) : s[i] = x})

\* s followed by the elements of t that s does not hold yet, in t's order.
RECURSIVE AppendNew(_, _)
AppendNew(s, t) ==
    IF t = <<>> THEN s
    ELSE AppendNew(IF Head(t) \in Range(s) THEN s ELSE Append(s, Head(t)), Tail(t))

\* Python's `pattern in url` on a URL given as its sequence of path tokens.
Contains(url, pattern) == \E i \in 1..Len(url) : url[i] = pattern

----------------------------------------------------------------------------
(* Data model of the sitemap parser *)

\* Optional[datetime]: `some` is FALSE for None; `aware` tells an offset-aware
\* datetime (parsed with %z) from a naive one (parsed with '%Y-%m-%d').
NoDatetime == [some |-> FALSE, t |-> 0, aware |-> FALSE]
Datetime(t, aware) == [some |-> TRUE, t |-> t, aware |-> aware]

\* Optional[int]
NoInt == [some |-> FALSE, v |-> 0]
SomeInt(k) == [some |-> TRUE, v |-> k]

\* Sitemap URLs of the modelled site.
RootUrl == "A"
SitemapUrls == {"A", "B", "C"}

\* SitemapEntry (loc, lastmod); changefreq and priority are carried, never read.
\* A loc is the content URL as its sequence of path tokens.
SitemapEntry(loc, lastmod) == [loc |-> loc, lastmod |-> lastmod]

\* The <url> elements a url-set document of the modelled site can hold.
EntryPool ==
    { SitemapEntry(<<"/en", "/ip/", "a">>, NoDatetime),
      SitemapEntry(<<"/en", "/ip/", "b">>, Datetime(3, TRUE)),
      SitemapEntry(<<"/en", "/cat/", "c">>, Datetime(1, TRUE)),
      SitemapEntry(<<"/en", "/ip/", "b">>, Datetime(3, FALSE)) }

\* SitemapEntry.is_product_page and the lambda of get_product_urls.
IsProductUrl(url) == Contains(url, "/ip/") \/ Contains(url, "/produit/")

\* What one fetch of a sitemap URL can give: the request raises, or returns a
\* body that is malformed XML, an index document or a url-set document.
Documents ==
    { [kind |-> "fetch_error", nested |-> <<>>, entries |-> <<>>],
      [kind |-> "malformed", nested |-> <<>>, entries |-> <<>>] }
    \cup { [kind |-> "index", nested |-> n, entries |-> <<>>] :
              n \in BSeq(SitemapUrls, MaxNested) }
    \cup { [kind |-> "urlset", nested |-> <<>>, entries |-> e] :
              e \in BSeq(EntryPool, MaxDocEntries) }

\* _fetch_sitemap_content: raises on a transport/HTTP error.
FetchRaises(doc) == doc.kind = "fetch_error"

\* _parse_sitemap_xml: (sitemap_urls, url_entries); both empty on a ParseError.
ParseSitemapXml(doc) ==
    CASE doc.kind = "index"  -> [sitemap_urls |-> doc.nested, url_entries |-> <<>>]
      [] doc.kind = "urlset" -> [sitemap_urls |-> <<>>, url_entries |-> doc.entries]
      [] OTHER               -> [sitemap_urls |-> <<>>, url_entries |-> <<>>]

\* ---- _parse_sitemap_xml on the elements of a document

\* Python's `pattern in text` on strings given as sequences of characters.
InText(pattern, text) ==
    \E i \in 1..(Len(text) - Len(pattern) + 1) :
        SubSeq(text, i, i + Len(pattern) - 1) = pattern

\* str.strip(): leading and trailing blanks removed.
RECURSIVE Strip(_)
Strip(text) ==
    IF text = <<>> THEN text
    ELSE IF Head(text) = " " THEN Strip(Tail(text))
    ELSE IF text[Len(text)] = " " THEN Strip(SubSeq(text, 1, Len(text) - 1))
    ELSE text

\* str.lower() on the letters the modelled tags use.
Lower(text) ==
    [i \in DOMAIN text |->
        CASE text[i] = "U" -> "u" [] text[i] = "S" -> "s" [] OTHER -> text[i]]

\* root.tag of the documents parsed: '{sm}sitemapindex' in the sitemap
\* namespace, 'UrlSet' without a namespace, and 'rss'.
RootTags ==
    { <<"{", "s", "m", "}", "s", "i", "t", "e", "m", "a", "p", "i", "n", "d", "e", "x">>,
      <<"U", "r", "l", "S", "e", "t">>,
      <<"r", "s", "s">> }

\* The text of a <loc> child: none (<loc/>), one blank, 'a', 'b '.
LocTexts == { <<>>, <<" ">>, <<"a">>, <<"b", " ">> }

\* An element without a <loc> child, and a <loc> child, in the sitemap
\* namespace (ns) or not, with its text.
NoLoc == [present |-> FALSE, ns |-> FALSE, text |-> <<>>]
Loc(ns, text) == [present |-> TRUE, ns |-> ns, text |-> text]

\* The <sitemap> and <url> elements below the root, each in the sitemap
\* namespace (ns) or not; none carries lastmod, changefreq or priority.
Elements ==
    [tag : {"sitemap", "url"}, ns : BOOLEAN,
     loc : {NoLoc} \cup { Loc(ns, text) : ns \in BOOLEAN, text \in LocTexts }]

\* What the bytes given to _parse_sitemap_xml spell: malformed XML, or a root
\* with its <sitemap>/<url> descendants in document order.
MalformedContent == [wellformed |-> FALSE, root |-> <<>>, elements |-> <<>>]
Contents ==
    { MalformedContent }
    \cup [wellformed : {TRUE}, root : RootTags, elements : BSeq(Elements, MaxElements)]

\* `loc is not None and loc.text` for `loc = elem.find('sm:loc', SITEMAP_NS)`
\* (ns) or `elem.find('loc')`: the child is there, in the form looked up, and
\* its text is not empty.
HasLoc(elem, ns) == elem.loc.present /\ elem.loc.ns = ns /\ elem.loc.text # <<>>

\* One findall loop: `loc.text.strip()` of the elements of the tag, in the
\* form looked up, that have a loc; the others are skipped.
RECURSIVE FindLocs(_, _, _)
FindLocs(elements, tag, ns) ==
    IF elements = <<>> THEN <<>>
    ELSE LET elem == Head(elements)
             rest == FindLocs(Tail(elements), tag, ns)
         IN IF elem.tag = tag /\ elem.ns = ns /\ HasLoc(elem, ns)
            THEN <<Strip(elem.loc.text)>> \o rest
            ELSE rest

\* Mutant of FallbackNeeded: the lookup without namespace is always made.
FallbackNeeded_Always(found) == TRUE

\* `if not sitemap_urls:` / `if not url_entries:` before the second lookup.
FallbackNeeded(found) == found = <<>>

\* The namespaced lookup, then the lookup without namespace onto the same list.
FindBoth(elements, tag) ==
    LET found == FindLocs(elements, tag, TRUE)
    IN IF FallbackNeeded(found) THEN found \o FindLocs(elements, tag, FALSE)
       ELSE found

\* _parse_sitemap_xml, on a document given by its elements.
ParseSitemapContent(content) ==
    IF ~content.wellformed THEN [sitemap_urls |-> <<>>, url_entries |-> <<>>]
    ELSE LET root_tag == Lower(content.root) IN
         IF InText(<<"s", "i", "t", "e", "m", "a", "p", "i", "n", "d", "e", "x">>, root_tag)
         THEN [sitemap_urls |-> FindBoth(content.elements, "sitemap"),
               url_entries |-> <<>>]
         ELSE IF InText(<<"u", "r", "l", "s", "e", "t">>, root_tag)
         THEN LET locs == FindBoth(content.elements, "url")
              IN [sitemap_urls |-> <<>>,
                  url_entries |-> [i \in 1..Len(locs) |->
                                      SitemapEntry(locs[i], NoDatetime)]]
         ELSE [sitemap_urls |-> <<>>, url_entries |-> <<>>]

\* A call of _parse_sitemap_xml on some document.
XmlInit ==
    /\ xml_content \in Contents
    /\ xml_pc = "called"
    /\ xml_result = ParseSitemapContent(MalformedContent)

\* _parse_sitemap_xml returns.
ParseXml ==
    /\ xml_pc = "called"
    /\ xml_result' = ParseSitemapContent(xml_content)
    /\ xml_pc' = "returned"
    /\ UNCHANGED xml_content

\* A parse that is not part of the run.
XmlIdle ==
    /\ xml_content = MalformedContent
    /\ xml_pc = "returned"
    /\ xml_result = ParseSitemapContent(MalformedContent)

\* ---- _fetch_sitemap_content, then _parse_sitemap_xml on what it returned

\* Bytes: the text of a document as it is (plain), or gzip-compressed.
Bytes(gzipped, payload) == [gzipped |-> gzipped, payload |-> payload]
NoBytes == Bytes(FALSE, MalformedContent)

\* The documents a response body can spell: malformed XML, or a root with at
\* most one element.
FetchPayloads == { c \in Contents : Len(c.elements) <= 1 }

\* What session.get gives: an HTTP error status, or a body; gz_url tells that
\* the URL ends in '.gz', gz_header that the Content-Encoding header says gzip.
Responses ==
    [http_error : BOOLEAN, gz_url : BOOLEAN, gz_header : BOOLEAN,
     body : { Bytes(g, c) : g \in BOOLEAN, c \in FetchPayloads }]

\* gzip.decompress: the plain bytes of gzip bytes; raises on bytes that are
\* not gzip data.
DecompressRaises(bytes) == ~bytes.gzipped
Decompress(bytes) == Bytes(FALSE, bytes.payload)

\* What a call returns: an exception, or bytes.
Raised == [raised |-> TRUE, content |-> NoBytes]
Returned(bytes) == [raised |-> FALSE, content |-> bytes]

\* Mutant of OnDecompressError: the failure escapes the fetch.
OnDecompressError_Raises(bytes) == Raised

\* `except Exception: pass` around gzip.decompress: content stays as it was.
OnDecompressError(bytes) == Returned(bytes)

\* _fetch_sitemap_content
FetchSitemapContent(response) ==
    IF response.http_error THEN Raised
    ELSE IF response.gz_url \/ response.gz_header
    THEN IF DecompressRaises(response.body) THEN OnDecompressError(response.body)
         ELSE Returned(Decompress(response.body))
    ELSE Returned(response.body)

\* ET.fromstring on bytes: gzip bytes are not well-formed XML.
ParseBytes(bytes) ==
    ParseSitemapContent(IF bytes.gzipped THEN MalformedContent ELSE bytes.payload)

\* The try block of parse_sitemap is entered for some URL.
FetchInit ==
    /\ fetch_response \in Responses
    /\ fetch_pc = "called"
    /\ fetch_content = NoBytes
    /\ fetch_result = ParseSitemapContent(MalformedContent)

\* `content = self._fetch_sitemap_content(current_url)`
FetchContent ==
    /\ fetch_pc = "called"
    /\ LET got == FetchSitemapContent(fetch_response)
       IN /\ fetch_pc' = IF got.raised THEN "raised" ELSE "fetched"
          /\ fetch_content' = got.content
    /\ UNCHANGED <<fetch_response, fetch_result>>

\* `nested_sitemaps, entries = self._parse_sitemap_xml(content)`
ParseFetched ==
    /\ fetch_pc = "fetched"
    /\ fetch_result' = ParseBytes(fetch_content)
    /\ fetch_pc' = "parsed"
    /\ UNCHANGED <<fetch_response, fetch_content>>

FetchNext ==
    \/ (FetchContent
        /\ UNCHANGED <<sm_vars, mgr_vars, prov_vars, flt_vars, xml_vars, ses_vars,
                     crawl_vars>>)
    \/ (ParseFetched
        /\ UNCHANGED <<sm_vars, mgr_vars, prov_vars, flt_vars, xml_vars, ses_vars,
                     crawl_vars>>)

\* A fetch that is not part of the run.
FetchIdle ==
    /\ fetch_response = [http_error |-> TRUE, gz_url |-> FALSE, gz_header |-> FALSE,
                         body |-> NoBytes]
    /\ fetch_pc = "raised"
    /\ fetch_content = NoBytes
    /\ fetch_result = ParseSitemapContent(MalformedContent)

\* The `since` arguments tried: none, or an offset-aware instant.
SinceArgs == { NoDatetime, Datetime(2, TRUE) }

\* The url_filter arguments tried: none, or the lambda of get_product_urls.
FilterArgs == { "none", "product" }

MaxUrlsArgs == { NoInt } \cup { SomeInt(k) : k \in 0..MaxUrlsArg }

\* url_filter(entry.loc)
ApplyFilter(f, loc) == IF f = "product" THEN IsProductUrl(loc) ELSE TRUE

\* `entry.lastmod < since` raises TypeError between an offset-naive and an
\* offset-aware datetime.
CompareRaises(since, lastmod) ==
    since.some /\ lastmod.some /\ lastmod.aware # since.aware

\* `if since and entry.lastmod and entry.lastmod < since: continue`
SinceSkips(since, lastmod) ==
    since.some /\ lastmod.some /\ lastmod.t < since.t

\* `if url_filter and not url_filter(entry.loc): continue`
FilterSkips(f, loc) == f # "none" /\ ~ApplyFilter(f, loc)

\* Mutant of LimitReached: the comparison is strict.
LimitReached_Strict(max_urls, n) == max_urls.some /\ max_urls.v # 0 /\ n > max_urls.v

\* `if max_urls and urls_yielded >= max_urls: return`
LimitReached(max_urls, n) == max_urls.some /\ max_urls.v # 0 /\ n >= max_urls.v

\* Mutant of AlreadyVisited: the visited check is missing.
AlreadyVisited_Never(url, visited) == FALSE

\* `if current_url in visited_sitemaps: continue`
AlreadyVisited(url, visited) == url \in visited

\* Mutant of MarkVisited: the URL is not recorded.
MarkVisited_Forgets(visited, url) == visited

\* `visited_sitemaps.add(current_url)`
MarkVisited(visited, url) == visited \cup {url}

\* Mutant of ExtendQueue: nested sitemaps are queued whatever `recursive` is.
ExtendQueue_Always(queue, recursive, nested) == queue \o nested

\* `if recursive and nested_sitemaps: sitemap_queue.extend(nested_sitemaps)`
ExtendQueue(queue, recursive, nested) ==
    IF recursive /\ nested # <<>> THEN queue \o nested ELSE queue

\* Mutant of Emit: an entry whose location this document yielded before is
\* dropped.
Emit_Once(out, entry) ==
    IF \E i \in 1..Len(out) : out[i].loc = entry.loc THEN out
    ELSE Append(out, entry)

\* `yield entry`
Emit(out, entry) == Append(out, entry)

\* The `for entry in entries` loop of parse_sitemap from entry i on, with n
\* entries yielded before it and `out` yielded by this document so far.
\* status: "end" (loop ran out), "return" (max_urls reached), "raised" (the
\* comparison raised, caught by the enclosing except).
RECURSIVE YieldEntries(_, _, _, _, _)
YieldEntries(args, entries, i, n, out) ==
    IF i > Len(entries) THEN [status |-> "end", n |-> n, out |-> out]
    ELSE LET e == entries[i] IN
         IF CompareRaises(args.since, e.lastmod)
         THEN [status |-> "raised", n |-> n, out |-> out]
         ELSE IF SinceSkips(args.since, e.lastmod) \/ FilterSkips(args.url_filter, e.loc)
         THEN YieldEntries(args, entries, i + 1, n, out)
         ELSE IF LimitReached(args.max_urls, n + 1)
         THEN [status |-> "return", n |-> n + 1, out |-> Emit(out, e)]
         ELSE YieldEntries(args, entries, i + 1, n + 1, Emit(out, e))

----------------------------------------------------------------------------
(* CaptchaSolverManager and its providers *)

\* CaptchaSolverFactory.PROVIDERS
PROVIDERS == {"2captcha", "capsolver"}

\* Provider names a configuration can use; "anticaptcha" is not supported.
ProviderNames == {"2captcha", "capsolver", "anticaptcha"}

\* A missing fallback_provider (None) and a missing or empty api_key.
NoProvider == ""
NoKey == ""

\* CaptchaSolution (success, token, error). An error is <<>> for None, else
\* the tuple of its text parts; a token is "" for None.
CaptchaSolution(success, token, error) ==
    [success |-> success, token |-> token, error |-> error]

\* str() of an Optional[str] error inside an f-string.
ErrorText(error) == IF error = <<>> THEN "None" ELSE error[1]

\* What one call of a provider's solve_perimeterx can give the manager: a
\* solution (successful with or without a token, or failed), or an exception.
ProviderOutcomes ==
    { [raised |-> FALSE, solution |-> CaptchaSolution(TRUE, "px-token", <<>>)],
      [raised |-> FALSE, solution |-> CaptchaSolution(TRUE, "", <<>>)],
      [raised |-> FALSE,
       solution |-> CaptchaSolution(FALSE, "", <<"Failed to create task">>)],
      [raised |-> FALSE,
       solution |-> CaptchaSolution(FALSE, "", <<"Timeout waiting for solution">>)],
      [raised |-> TRUE,
       solution |-> CaptchaSolution(FALSE, "", <<"provider raised">>)] }

\* One item of config["providers"]: a provider name and its api_key (NoKey
\* when the key is missing or empty).
ProviderItem(name, api_key) == [name |-> name, api_key |-> api_key]

\* config["providers"]: a dict, iterated in insertion order, so a sequence of
\* items with distinct names.
ProvidersConfigs ==
    { items \in BSeq([name : ProviderNames, api_key : {NoKey, "key"}],
                     Cardinality(ProviderNames)) :
        \A i, j \in 1..Len(items) : i # j => items[i].name # items[j].name }

\* The configurations a manager is constructed from.
ManagerConfigs ==
    [enabled : BOOLEAN,
     primary_provider : ProviderNames,
     fallback_provider : ProviderNames \cup {NoProvider},
     providers : ProvidersConfigs,
     max_retries : 0..MaxRetries]

\* CaptchaSolverFactory.create raises ValueError for an unknown provider.
FactoryRaises(provider) == provider \notin PROVIDERS

\* Mutant of AfterValueError: the first unknown provider ends the loop.
AfterValueError_Stops(i, n) == n + 1

\* `except ValueError` is inside the loop of _init_solvers: after the warning
\* the loop goes on with the next of the n items.
AfterValueError(i, n) == i + 1

\* _init_solvers: the loop over providers_config.items() from item i on, with
\* the solvers registered so far.
RECURSIVE InitSolversFrom(_, _, _)
InitSolversFrom(providers_config, i, solvers) ==
    IF i > Len(providers_config)
    THEN solvers
    ELSE LET item == providers_config[i]
         IN IF item.api_key = NoKey
            THEN InitSolversFrom(providers_config, i + 1, solvers)
            ELSE IF FactoryRaises(item.name)
            THEN InitSolversFrom(providers_config,
                                 AfterValueError(i, Len(providers_config)),
                                 solvers)
            ELSE InitSolversFrom(providers_config, i + 1,
                                 solvers \cup {item.name})

\* _init_solvers
InitSolvers(providers_config) == InitSolversFrom(providers_config, 1, {})

\* CaptchaSolverManager.__init__
NewManager(config) ==
    [enabled |-> config.enabled,
     primary_provider |-> config.primary_provider,
     fallback_provider |-> config.fallback_provider,
     max_retries |-> config.max_retries,
     solvers |-> IF config.enabled THEN InitSolvers(config.providers) ELSE {}]

\* Mutant of IsAvailable: the solvers are not looked at.
IsAvailable_EnabledOnly(m) == m.enabled

\* Mutant of IsAvailable: the manager always goes on to its providers.
IsAvailable_Always(m) == TRUE

\* is_available
IsAvailable(m) == m.enabled /\ Cardinality(m.solvers) > 0

\* Mutant of ProvidersToTry: a fallback equal to the primary is tried too.
ProvidersToTry_FallbackAlways(m) ==
    <<m.primary_provider>> \o
        (IF m.fallback_provider # NoProvider THEN <<m.fallback_provider>> ELSE <<>>)

\* providers_to_try: the primary, then the fallback if set and distinct.
ProvidersToTry(m) ==
    <<m.primary_provider>> \o
        (IF m.fallback_provider # NoProvider
            /\ m.fallback_provider # m.primary_provider
         THEN <<m.fallback_provider>> ELSE <<>>)

\* Mutant of HasAttempt: one attempt too many.
HasAttempt_OffByOne(m, attempt) == attempt <= m.max_retries

\* `for attempt in range(self.max_retries)`: is there another attempt?
HasAttempt(m, attempt) == attempt < m.max_retries

\* `except Exception as e` around the provider call catches what it raises.
Caught(o) == o.raised

\* Mutant of LastError: the text of a caught exception is not recorded.
LastError_DropsException(o) == IF o.raised THEN <<>> ELSE o.solution.error

\* last_error after a failed attempt: result.error, or str(e) of the exception.
LastError(o) == o.solution.error

\* The runs of the provider loop of solve_perimeterx from provider number pi
\* and attempt number `attempt` on: each run is the calls made, the solution
\* returned and whether an exception escaped instead, for one choice of the
\* providers' outcomes.
RECURSIVE SolveLoop(_, _, _, _, _, _)
SolveLoop(m, provs, pi, attempt, calls, last_error) ==
    IF pi > Len(provs)
    THEN { [calls |-> calls, raised |-> FALSE,
            solution |-> CaptchaSolution(FALSE, "",
                <<"All CAPTCHA solvers failed. Last error: ", ErrorText(last_error)>>)] }
    ELSE IF provs[pi] \notin m.solvers \/ ~HasAttempt(m, attempt)
    THEN SolveLoop(m, provs, pi + 1, 0, calls, last_error)
    ELSE UNION {
           LET called == Append(calls, [provider |-> provs[pi], outcome |-> o])
           IN IF o.raised /\ ~Caught(o)
              THEN { [calls |-> called, raised |-> TRUE, solution |-> o.solution] }
              ELSE IF ~o.raised /\ o.solution.success
              THEN { [calls |-> called, raised |-> FALSE, solution |-> o.solution] }
              ELSE SolveLoop(m, provs, pi, attempt + 1, called, LastError(o))
           : o \in ProviderOutcomes }

\* solve_perimeterx: every run the call can take.
SolvePerimeterxRuns(m) ==
    IF ~IsAvailable(m)
    THEN { [calls |-> <<>>, raised |-> FALSE,
            solution |-> CaptchaSolution(FALSE, "",
                <<"CAPTCHA solving is not configured or enabled">>)] }
    ELSE SolveLoop(m, ProvidersToTry(m), 1, 0, <<>>, <<>>)

NoSolution == CaptchaSolution(FALSE, "", <<>>)

\* What a provider's balance request can meet: a response carrying the
\* balance, an error response, or a transport error (the request raises).
BalanceQueries ==
    { [kind |-> "ok", amount |-> a] : a \in 0..MaxBalance }
        \cup { [kind |-> k, amount |-> 0] : k \in {"error_response", "transport_error"} }

\* TwoCaptchaSolver.get_balance / CapSolver.get_balance: the balance of an ok
\* response; `except Exception` and the error response fall through to
\* `return 0.0`. Nothing is raised to the caller.
ProviderGetBalance(query) ==
    [raised |-> FALSE,
     amount |-> IF query.kind = "ok" THEN query.amount ELSE 0]

\* get_balances: `balances[name] = -1.0` in its except branch.
BalanceSentinel == 0 - 1

\* get_balances: the amount recorded for one solver.
BalanceOf(query) ==
    LET r == ProviderGetBalance(query)
    IN IF r.raised THEN BalanceSentinel ELSE r.amount

\* No get_balances call has returned yet.
NoBalances == [called |-> FALSE, queries |-> <<>>, balances |-> <<>>]

ManagerInit ==
    /\ mgr_config \in ManagerConfigs
    /\ mgr = NewManager(mgr_config)
    /\ mgr_pc = "ready"
    /\ mgr_calls = <<>>
    /\ mgr_result = NoSolution
    /\ mgr_balances = NoBalances

\* One call of CaptchaSolverManager.solve_perimeterx.
SolvePerimeterx ==
    /\ mgr_pc = "ready"
    /\ \E run \in SolvePerimeterxRuns(mgr) :
          /\ mgr_calls' = run.calls
          /\ mgr_result' = run.solution
          /\ mgr_pc' = IF run.raised THEN "raised" ELSE "returned"
    /\ UNCHANGED <<mgr_config, mgr, mgr_balances>>

\* One call of CaptchaSolverManager.get_balances: every solver is queried.
GetBalances ==
    /\ mgr_pc = "ready"
    /\ \E queries \in [mgr.solvers -> BalanceQueries] :
          mgr_balances' =
              [called |-> TRUE,
               queries |-> queries,
               balances |-> [name \in mgr.solvers |-> BalanceOf(queries[name])]]
    /\ mgr_pc' = "balances"
    /\ UNCHANGED <<mgr_config, mgr, mgr_calls, mgr_result>>

----------------------------------------------------------------------------
(* A provider: TwoCaptchaSolver and CapSolver, solve_perimeterx *)

\* self.poll_interval, set in the constructor of each provider class.
PollInterval(kind) == IF kind = "2captcha" THEN 5 ELSE 3

\* A solver as the factory builds it: the timeout is the manager's.
NewSolver(kind, timeout) ==
    [kind |-> kind, timeout |-> timeout, poll_interval |-> PollInterval(kind)]

\* task_id is None, and a token missing from a response.
NoTask == ""

\* What the request of _create_task can meet: a response (ok tells whether
\* it carries the success marker, status 1 or errorId 0; task is the
\* "request" or "taskId" field) or a transport error.
CreateResponses ==
    { [raised |-> FALSE, ok |-> TRUE, task |-> "task-1"],
      [raised |-> FALSE, ok |-> TRUE, task |-> NoTask],
      [raised |-> FALSE, ok |-> FALSE, task |-> NoTask],
      [raised |-> TRUE, ok |-> FALSE, task |-> NoTask] }

\* Mutant of CreateTask: a task id is returned whatever the request met.
CreateTask_AlwaysId(response) == "task-1"

\* _create_task: the task id, or None after an error response or an error
\* of the request (`except Exception: return None`).
CreateTask(response) ==
    IF response.raised THEN NoTask
    ELSE IF response.ok THEN response.task
    ELSE NoTask

\* What a result request of TwoCaptchaSolver._get_result can meet.
TwoCaptchaResponses ==
    { [raised |-> FALSE, status |-> 1, request |-> "px-token"],
      [raised |-> FALSE, status |-> 0, request |-> "CAPCHA_NOT_READY"],
      [raised |-> FALSE, status |-> 0, request |-> "ERROR_CAPTCHA_UNSOLVABLE"],
      [raised |-> TRUE, status |-> 0, request |-> ""] }

\* What a result request of CapSolver._get_result can meet.
CapSolverResponses ==
    { [raised |-> FALSE, errorId |-> 0, status |-> "ready",
       errorDescription |-> "", token |-> "px-token"],
      [raised |-> FALSE, errorId |-> 0, status |-> "processing",
       errorDescription |-> "", token |-> NoTask],
      [raised |-> FALSE, errorId |-> 0, status |-> "failed",
       errorDescription |-> "", token |-> NoTask],
      [raised |-> FALSE, errorId |-> 1, status |-> "",
       errorDescription |-> "ERROR_TASK_NOT_FOUND", token |-> NoTask],
      [raised |-> TRUE, errorId |-> 0, status |-> "",
       errorDescription |-> "", token |-> NoTask] }

PollResponses(kind) ==
    IF kind = "2captcha" THEN TwoCaptchaResponses ELSE CapSolverResponses

\* Mutant of PollCaught: an error of the result request leaves the loop.
PollCaught_Never(response) == FALSE

\* `except Exception as e` inside the loop of _get_result catches the error
\* of a result request.
PollCaught(response) == response.raised

\* What one iteration of the loop does with its response: "return" with a
\* solution, "sleep" for poll_interval, or "raise".
PollReturn(solution) == [step |-> "return", solution |-> solution]
PollSleep == [step |-> "sleep", solution |-> NoSolution]
PollRaise == [step |-> "raise", solution |-> NoSolution]

\* The body of the loop of TwoCaptchaSolver._get_result.
TwoCaptchaPoll(response) ==
    IF response.raised
    THEN IF PollCaught(response) THEN PollSleep ELSE PollRaise
    ELSE IF response.status = 1
    THEN PollReturn(CaptchaSolution(TRUE, response.request, <<>>))
    ELSE IF response.request = "CAPCHA_NOT_READY"
    THEN PollSleep
    ELSE PollReturn(CaptchaSolution(FALSE, "", <<response.request>>))

\* The body of the loop of CapSolver._get_result.
CapSolverPoll(response) ==
    IF response.raised
    THEN IF PollCaught(response) THEN PollSleep ELSE PollRaise
    ELSE IF response.errorId # 0
    THEN PollReturn(CaptchaSolution(FALSE, "", <<response.errorDescription>>))
    ELSE IF response.status = "ready"
    THEN PollReturn(CaptchaSolution(TRUE, response.token, <<>>))
    ELSE IF response.status = "processing"
    THEN PollSleep
    ELSE PollReturn(CaptchaSolution(FALSE, "",
                                    <<"Unknown status: ", response.status>>))

PollOnce(kind, response) ==
    IF kind = "2captcha" THEN TwoCaptchaPoll(response) ELSE CapSolverPoll(response)

\* Mutant of WithinTimeout: the loop never gives up.
WithinTimeout_Always(elapsed, timeout) == TRUE

\* `while time.time() - start_time < self.timeout`
WithinTimeout(elapsed, timeout) == elapsed < timeout

\* A step that made no request.
NoResponse == [raised |-> FALSE]

\* Record of the last step of the call: op is "call", "create", "poll" or
\* "timeout"; response is what its request met, and raised whether that was
\* a transport error; at is the elapsed time at which a poll was started;
\* step what the poll did; after_error whether the step before was a poll
\* whose request met a transport error.
ProviderStep(op, response, at, step, after_error) ==
    [op |-> op, raised |-> response.raised, response |-> response, at |-> at,
     step |-> step, after_error |-> after_error]

\* The last step was a poll whose request met a transport error.
PollErrored(step) == step.op = "poll" /\ step.raised

\* solve_perimeterx is called on a solver with some timeout.
ProviderInit ==
    /\ prov \in { NewSolver(kind, timeout) :
                    kind \in PROVIDERS, timeout \in 0..MaxTimeout }
    /\ prov_pc = "called"
    /\ prov_elapsed = 0
    /\ prov_polls = 0
    /\ prov_last = ProviderStep("call", NoResponse, 0, "none", FALSE)
    /\ prov_result = NoSolution

\* solve_perimeterx up to the call of _get_result: _create_task, and the
\* failure returned when there is no task id; else start_time is taken.
ProviderCreateTask ==
    /\ prov_pc = "called"
    /\ \E response \in CreateResponses :
          /\ prov_last' = ProviderStep("create", response, 0, "none", FALSE)
          /\ IF CreateTask(response) = NoTask
             THEN /\ prov_pc' = "returned"
                  /\ prov_result' =
                        CaptchaSolution(FALSE, "", <<"Failed to create task">>)
             ELSE /\ prov_pc' = "polling"
                  /\ prov_result' = prov_result
    /\ prov_elapsed' = 0
    /\ UNCHANGED <<prov, prov_polls>>

\* One iteration of the loop of _get_result: a result request, which takes
\* some time, then a return or a sleep of poll_interval.
ProviderPoll ==
    /\ prov_pc = "polling"
    /\ WithinTimeout(prov_elapsed, prov.timeout)
    /\ \E response \in PollResponses(prov.kind), latency \in 0..MaxLatency :
          LET did == PollOnce(prov.kind, response)
          IN /\ prov_last' = ProviderStep("poll", response, prov_elapsed,
                                          did.step, PollErrored(prov_last))
             /\ prov_pc' = CASE did.step = "return" -> "returned"
                              [] did.step = "raise" -> "raised"
                              [] OTHER -> "polling"
             /\ prov_result' = IF did.step = "return" THEN did.solution
                                ELSE prov_result
             /\ prov_elapsed' = prov_elapsed + latency
                                 + (IF did.step = "sleep" THEN prov.poll_interval
                                    ELSE 0)
    /\ prov_polls' = prov_polls + 1
    /\ UNCHANGED prov

\* The loop condition fails: the failure after the loop.
ProviderTimeout ==
    /\ prov_pc = "polling"
    /\ ~WithinTimeout(prov_elapsed, prov.timeout)
    /\ prov_pc' = "returned"
    /\ prov_result' =
          CaptchaSolution(FALSE, "", <<"Timeout waiting for solution">>)
    /\ prov_last' = ProviderStep("timeout", NoResponse, prov_elapsed, "none",
                               PollErrored(prov_last))
    /\ UNCHANGED <<prov, prov_elapsed, prov_polls>>

ProviderNext ==
    \/ (ProviderCreateTask /\ UNCHANGED <<sm_vars, mgr_vars, crawl_vars, flt_vars, xml_vars, fetch_vars, ses_vars>>)
    \/ (ProviderPoll /\ UNCHANGED <<sm_vars, mgr_vars, crawl_vars, flt_vars, xml_vars, fetch_vars, ses_vars>>)
    \/ (ProviderTimeout /\ UNCHANGED <<sm_vars, mgr_vars, crawl_vars, flt_vars, xml_vars, fetch_vars, ses_vars>>)

\* A provider call that is not part of the run.
ProviderIdle ==
    /\ prov = NewSolver("capsolver", MaxTimeout)
    /\ prov_pc = "returned"
    /\ prov_elapsed = 0
    /\ prov_polls = 0
    /\ prov_last = ProviderStep("call", NoResponse, 0, "none", FALSE)
    /\ prov_result = NoSolution

----------------------------------------------------------------------------
(* parse_sitemap: one action per iteration of `while sitemap_queue` *)

\* Mutant of AfterException: the failure ends the traversal.
AfterException_Aborts(pc) == "done"

\* `except Exception: logger.error(...); continue`: the loop goes on.
AfterException(pc) == pc

\* Record of one loop iteration: what it did (op: "skip", "fetch_error", the
\* kind of the document parsed, or "exhausted"), on which URL, how the entries
\* loop ended, the entries the document held and those it yielded.
LastStep(op, url, status, entries, out) ==
    [op |-> op, url |-> url, status |-> status, entries |-> entries, out |-> out]

SitemapInit ==
    /\ sm_args \in [url : {RootUrl}, recursive : BOOLEAN, since : SinceArgs,
                     url_filter : FilterArgs, max_urls : MaxUrlsArgs]
    /\ urls_yielded = 0
    /\ visited_sitemaps = {}
    /\ sitemap_queue = <<sm_args.url>>
    /\ sm_pc = "loop"
    /\ fetched = <<>>
    /\ yielded = <<>>
    /\ skipped = {}
    /\ enqueued = <<sm_args.url>>
    /\ sm_last = LastStep("call", sm_args.url, "end", <<>>, <<>>)

\* The dequeued URL was fetched before: `continue`.
SkipVisited ==
    /\ sm_pc = "loop"
    /\ sitemap_queue # <<>>
    /\ AlreadyVisited(Head(sitemap_queue), visited_sitemaps)
    /\ sitemap_queue' = Tail(sitemap_queue)
    /\ skipped' = skipped \cup {Head(sitemap_queue)}
    /\ sm_last' = LastStep("skip", Head(sitemap_queue), "end", <<>>, <<>>)
    /\ UNCHANGED <<sm_args, urls_yielded, visited_sitemaps, sm_pc, fetched,
                   yielded, enqueued>>

\* The dequeued URL is new and its fetch raises: logged, `continue`.
FetchFails ==
    /\ sm_pc = "loop"
    /\ sitemap_queue # <<>>
    /\ ~AlreadyVisited(Head(sitemap_queue), visited_sitemaps)
    /\ Len(fetched) < MaxFetches
    /\ \E doc \in Documents :
          /\ FetchRaises(doc)
          /\ sitemap_queue' = Tail(sitemap_queue)
          /\ visited_sitemaps' = MarkVisited(visited_sitemaps, Head(sitemap_queue))
          /\ fetched' = Append(fetched, [url |-> Head(sitemap_queue),
                                          kind |-> doc.kind])
          /\ sm_last' = LastStep("fetch_error", Head(sitemap_queue), "raised",
                                 <<>>, <<>>)
    /\ sm_pc' = AfterException(sm_pc)
    /\ UNCHANGED <<sm_args, urls_yielded, yielded, skipped, enqueued>>

\* The dequeued URL is new, fetched and parsed: nested sitemaps are queued and
\* the entries are filtered and yielded, up to max_urls.
ProcessDocument ==
    /\ sm_pc = "loop"
    /\ sitemap_queue # <<>>
    /\ ~AlreadyVisited(Head(sitemap_queue), visited_sitemaps)
    /\ Len(fetched) < MaxFetches
    /\ \E doc \in Documents :
          /\ ~FetchRaises(doc)
          /\ LET parsed == ParseSitemapXml(doc)
                 r == YieldEntries(sm_args, parsed.url_entries, 1, urls_yielded, <<>>)
                 q == ExtendQueue(Tail(sitemap_queue), sm_args.recursive,
                                  parsed.sitemap_urls)
             IN /\ sitemap_queue' = q
                /\ enqueued' = AppendNew(enqueued, SubSeq(q, Len(sitemap_queue), Len(q)))
                /\ visited_sitemaps' = MarkVisited(visited_sitemaps, Head(sitemap_queue))
                /\ fetched' = Append(fetched, [url |-> Head(sitemap_queue),
                                                kind |-> doc.kind])
                /\ yielded' = yielded \o r.out
                /\ urls_yielded' = r.n
                /\ sm_pc' = CASE r.status = "return" -> "done"
                               [] r.status = "raised" -> AfterException(sm_pc)
                               [] OTHER -> sm_pc
                /\ sm_last' = LastStep(doc.kind, Head(sitemap_queue), r.status,
                                       parsed.url_entries, r.out)
    /\ UNCHANGED <<sm_args, skipped>>

\* `while sitemap_queue` finds the queue empty: the generator is exhausted.
QueueExhausted ==
    /\ sm_pc = "loop"
    /\ sitemap_queue = <<>>
    /\ sm_pc' = "done"
    /\ sm_last' = LastStep("exhausted", sm_args.url, "end", <<>>, <<>>)
    /\ UNCHANGED <<sm_args, urls_yielded, visited_sitemaps, sitemap_queue,
                   fetched, yielded, skipped, enqueued>>

SitemapNext ==
    \/ (SkipVisited /\ UNCHANGED <<mgr_vars, prov_vars, crawl_vars, flt_vars, xml_vars, fetch_vars, ses_vars>>)
    \/ (FetchFails /\ UNCHANGED <<mgr_vars, prov_vars, crawl_vars, flt_vars, xml_vars, fetch_vars, ses_vars>>)
    \/ (ProcessDocument /\ UNCHANGED <<mgr_vars, prov_vars, crawl_vars, flt_vars, xml_vars, fetch_vars, ses_vars>>)
    \/ (QueueExhausted /\ UNCHANGED <<mgr_vars, prov_vars, crawl_vars, flt_vars, xml_vars, fetch_vars, ses_vars>>)

----------------------------------------------------------------------------
(* WalmartCanadaScraper: browser session, product-page visit, sitemap crawl *)

\* self.max_consecutive_errors
max_consecutive_errors == 5

\* Python's `pattern in url` on strings given as sequences of characters:
\* pattern occurs in url as a substring.
InString(pattern, url) ==
    \E i \in 1..(Len(url) - Len(pattern) + 1) :
        SubSeq(url, i, i + Len(pattern) - 1) = pattern

\* URLs of the discovered list: /en/ip/a, a product page, and /en/ip/b?f=,
\* a product page reached through a filter parameter.
CrawlLocs == { <<"/", "e", "n", "/", "i", "p", "/", "a">>,
               <<"/", "e", "n", "/", "i", "p", "/", "b", "?", "f", "=">> }

\* Mutant of disallowed_patterns: the filter parameter '?f=' is let through.
disallowed_patterns_NoFacet ==
    { <<"/", "s", "e", "a", "r", "c", "h">>,
      <<"/", "r", "e", "c", "h", "e", "r", "c", "h", "e">>,
      <<"/", "c", "a", "r", "t">>,
      <<"/", "p", "a", "n", "i", "e", "r">>,
      <<"/", "s", "i", "g", "n", "-", "i", "n">>,
      <<"/", "a", "c", "c", "o", "u", "n", "t">>,
      <<"/", "k", "i", "o", "s", "k", "/">>,
      <<"+">> }

\* disallowed_patterns of filter_walmart_product_urls: '/search',
\* '/recherche', '/cart', '/panier', '/sign-in', '/account', '/kiosk/', '+'
\* and '?f='.
disallowed_patterns ==
    { <<"/", "s", "e", "a", "r", "c", "h">>,
      <<"/", "r", "e", "c", "h", "e", "r", "c", "h", "e">>,
      <<"/", "c", "a", "r", "t">>,
      <<"/", "p", "a", "n", "i", "e", "r">>,
      <<"/", "s", "i", "g", "n", "-", "i", "n">>,
      <<"/", "a", "c", "c", "o", "u", "n", "t">>,
      <<"/", "k", "i", "o", "s", "k", "/">>,
      <<"+">>,
      <<"?", "f", "=">> }

\* filter_walmart_product_urls
filter_walmart_product_urls(url) ==
    IF ~InString(<<"/", "i", "p", "/">>, url) /\ ~InString(<<"/", "p", "r", "o", "d", "u", "i", "t", "/">>, url)
    THEN FALSE
    ELSE \A pattern \in disallowed_patterns : ~InString(pattern, url)

\* Mutant of SkipsEntry: no entry is skipped.
SkipsEntry_Never(loc) == FALSE

\* `if not filter_walmart_product_urls(entry.loc): continue` in the loop of
\* scrape_from_sitemap.
SkipsEntry(loc) == ~filter_walmart_product_urls(loc)

\* The url_filter lambda of get_product_urls, on a string given as its
\* sequence of characters: `'/ip/' in url or '/produit/' in url`.
IsItemPageUrl(url) ==
    InString(<<"/", "i", "p", "/">>, url)
        \/ InString(<<"/", "p", "r", "o", "d", "u", "i", "t", "/">>, url)

\* Pieces of text the URLs given to the filter are made of: '/en/ip/',
\* '/fr/produit/', 'widget/12345', '?f=color', '/search', '?q=widget',
\* '/recherche', '/cart', '/panier', '/sign-in', '/account', '/kiosk', '/',
\* '+' and 'ip/'.
UrlPieces ==
    { <<"/", "e", "n", "/", "i", "p", "/">>,
      <<"/", "f", "r", "/", "p", "r", "o", "d", "u", "i", "t", "/">>,
      <<"w", "i", "d", "g", "e", "t", "/", "1", "2", "3", "4", "5">>,
      <<"?", "f", "=", "c", "o", "l", "o", "r">>,
      <<"/", "s", "e", "a", "r", "c", "h">>,
      <<"?", "q", "=", "w", "i", "d", "g", "e", "t">>,
      <<"/", "r", "e", "c", "h", "e", "r", "c", "h", "e">>,
      <<"/", "c", "a", "r", "t">>,
      <<"/", "p", "a", "n", "i", "e", "r">>,
      <<"/", "s", "i", "g", "n", "-", "i", "n">>,
      <<"/", "a", "c", "c", "o", "u", "n", "t">>,
      <<"/", "k", "i", "o", "s", "k">>,
      <<"/">>,
      <<"+">>,
      <<"i", "p", "/">> }

\* The concatenation of a sequence of strings.
RECURSIVE Concat(_)
Concat(strings) ==
    IF strings = <<>> THEN <<>> ELSE Head(strings) \o Concat(Tail(strings))

\* The URLs given to the filter.
FilterUrls == { Concat(ps) : ps \in BSeq(UrlPieces, MaxPieces) }

\* A call of filter_walmart_product_urls on some URL.
FilterInit ==
    /\ flt_url \in FilterUrls
    /\ flt_pc = "called"
    /\ flt_result = FALSE

\* filter_walmart_product_urls returns.
FilterUrl ==
    /\ flt_pc = "called"
    /\ flt_result' = filter_walmart_product_urls(flt_url)
    /\ flt_pc' = "returned"
    /\ UNCHANGED flt_url

FilterNext ==
    FilterUrl
    /\ UNCHANGED <<sm_vars, mgr_vars, prov_vars, xml_vars, fetch_vars, ses_vars, crawl_vars>>

XmlNext ==
    ParseXml
    /\ UNCHANGED <<sm_vars, mgr_vars, prov_vars, flt_vars, fetch_vars, ses_vars, crawl_vars>>

\* A filter call that is not part of the run.
FilterIdle ==
    /\ flt_url = <<>>
    /\ flt_pc = "returned"
    /\ flt_result = FALSE

\* The captcha_solver configurations a scraper is built with: none (the
\* default, disabled) and two providers with keys.
ScraperManagerConfigs ==
    { [enabled |-> FALSE, primary_provider |-> "capsolver",
       fallback_provider |-> NoProvider,
       providers |-> <<>>, max_retries |-> 1],
      [enabled |-> TRUE, primary_provider |-> "capsolver",
       fallback_provider |-> "2captcha",
       providers |-> <<ProviderItem("capsolver", "key"),
                       ProviderItem("2captcha", "key")>>,
       max_retries |-> 1] }

\* Record of the last operation called on the scraper. For a visit
\* (scrape_product_page): whether start_browser raised out of it, whether
\* page.goto was called and how it ended, whether the page showed a block,
\* how the block handling ended, whether the backoff delay of _handle_block
\* was applied, whether _handle_captcha counted an attempt and a success,
\* which extraction gave the result and whether a record was returned, and
\* the events of the try block in the order they took place ("goto", a block
\* check "blocked" or "not_blocked", the solver manager's return "solve_ok" or
\* "solve_failed", "inject", "reload", "extract"); after_errors tells that consecutive_errors was above 0 when the
\* operation was called. For every operation: whether it called
\* warmup_session, whether session_warmed_up was set when it did, the number
\* of warmup pages configured, the number that call went to, and whether one
\* of them was blocked or failed. For a visit of the crawl loop: whether
\* save_record returned True for its record, and whether save_checkpoint was
\* then called with this entry's URL as last_url. For an entry of the crawl
\* loop, visited or skipped: url, its loc (<<>> otherwise).
NoCall ==
    [op |-> "init", raised |-> FALSE, loaded |-> FALSE, goto |-> "none",
     blocked |-> FALSE, why |-> "none", bypassed |-> FALSE, backoff |-> FALSE,
     attempted |-> FALSE, succeeded |-> FALSE, extracted |-> "none",
     record |-> FALSE, after_errors |-> FALSE,
     warmup_called |-> FALSE, was_warmed |-> FALSE, warm_pages |-> 0,
     warm_visits |-> 0, warm_trouble |-> FALSE,
     saved |-> FALSE, checkpointed |-> FALSE, events |-> <<>>, url |-> <<>>]

Call(op, errors) == [NoCall EXCEPT !.op = op, !.after_errors = (errors > 0)]

\* Mutant of AlreadyWarmed: the flag is not looked at.
AlreadyWarmed_Never(warmed) == FALSE

\* `if self.session_warmed_up: return` at the top of warmup_session.
AlreadyWarmed(warmed) == warmed

\* How the visit of one warmup page can end: browsed, found blocked, or
\* failed with an exception of page.goto.
WarmupPageOutcomes == {"ok", "blocked", "error"}

\* Mutant of AfterWarmupTrouble: a blocked or failed page ends the warmup.
AfterWarmupTrouble_Stops(i, n) == n + 1

\* `continue` after a block, and the end of the except branch: the loop goes
\* on with the next of the n pages.
AfterWarmupTrouble(i, n) == i + 1

\* The loop over warmup_pages from page i on, given how each page ends:
\* the number of page.goto calls made.
RECURSIVE WarmupLoop(_, _, _)
WarmupLoop(outcomes, i, visits) ==
    IF i > Len(outcomes) THEN visits
    ELSE IF outcomes[i] = "ok"
    THEN WarmupLoop(outcomes, i + 1, visits + 1)
    ELSE WarmupLoop(outcomes, AfterWarmupTrouble(i, Len(outcomes)), visits + 1)

\* What a call of warmup_session did: the number of pages configured, the
\* number of page.goto calls and whether a page was blocked or failed.
WarmupRun(pages, visits, trouble) ==
    [pages |-> pages, visits |-> visits, trouble |-> trouble]

\* warmup_session: the runs it can take. Nothing when the session is warmed
\* up already; else the loop over the configured pages (none when warmup is
\* disabled or the list empty); without a page each goto fails on self.page
\* before any visit, and the failure is caught.
WarmupRuns(warmed, has_page) ==
    IF AlreadyWarmed(warmed) THEN { WarmupRun(0, 0, FALSE) }
    ELSE IF has_page
    THEN { WarmupRun(Len(o), WarmupLoop(o, 1, 0),
                     \E i \in 1..Len(o) : o[i] # "ok") :
             o \in BSeq(WarmupPageOutcomes, MaxWarmupPages) }
    ELSE { WarmupRun(n, 0, n > 0) : n \in 0..MaxWarmupPages }

\* Whether the running browser has gone through the warmup pages, after a
\* call of warmup_session: it has if it had before, or if this call went on
\* to the loop over the pages with a browser.
WarmedAfter(before, warmed, has_page) ==
    before \/ (~AlreadyWarmed(warmed) /\ has_page)

\* The record of an operation that called warmup_session.
WithWarmup(call, warmed, run) ==
    [call EXCEPT !.warmup_called = TRUE, !.was_warmed = warmed,
                 !.warm_pages = run.pages, !.warm_visits = run.visits,
                 !.warm_trouble = run.trouble]

\* start_browser: nothing to do when the browser runs; otherwise the launch
\* succeeds or raises.
StartBrowserOutcomes(has_page) == IF has_page THEN {"running"} ELSE {"ok", "raised"}

\* The ways _handle_captcha can end: whether captcha_solve_attempts and
\* captcha_solve_successes were incremented, whether it returned True.
HandleCaptchaOutcomes(m) ==
    IF ~IsAvailable(m)
    THEN { [attempted |-> FALSE, succeeded |-> FALSE, solved |-> FALSE,
            why |-> "unavailable", events |-> <<>>] }
    ELSE UNION {
           IF run.raised \/ ~run.solution.success
           THEN { [attempted |-> TRUE, succeeded |-> FALSE, solved |-> FALSE,
                   why |-> "solve_failed", events |-> <<"solve_failed">>] }
           ELSE IF run.solution.token = ""
           THEN { [attempted |-> TRUE, succeeded |-> TRUE, solved |-> FALSE,
                   why |-> "no_token", events |-> <<"solve_ok">>] }
           ELSE { [attempted |-> TRUE, succeeded |-> TRUE, solved |-> FALSE,
                   why |-> "inject_error", events |-> <<"solve_ok", "inject">>],
                  [attempted |-> TRUE, succeeded |-> TRUE, solved |-> FALSE,
                   why |-> "inject_error",
                   events |-> <<"solve_ok", "inject", "reload">>],
                  [attempted |-> TRUE, succeeded |-> TRUE, solved |-> FALSE,
                   why |-> "still_blocked",
                   events |-> <<"solve_ok", "inject", "reload", "blocked">>],
                  [attempted |-> TRUE, succeeded |-> TRUE, solved |-> TRUE,
                   why |-> "bypassed",
                   events |-> <<"solve_ok", "inject", "reload", "not_blocked">>] }
           : run \in SolvePerimeterxRuns(m) }

\* Mutant of CountAttempt: the attempt is not counted.
CountAttempt_Skips(n) == n

\* `self.captcha_solve_attempts += 1`
CountAttempt(n) == n + 1

\* `self.captcha_solve_successes += 1`
CountSuccess(n) == n + 1

\* Mutant of BackoffApplied: no backoff delay after a failed bypass.
BackoffApplied_Never(solved) == FALSE

\* _handle_block: the backoff delay is applied unless the block was bypassed.
BackoffApplied(solved) == ~solved

\* Mutant of IncrementErrors: a failure counts twice.
IncrementErrors_Twice(n) == n + 2

\* `self.consecutive_errors += 1`
IncrementErrors(n) == n + 1

\* Mutant of ResetErrors: the counter is left as it is.
ResetErrors_Keeps(n) == n

\* `self.consecutive_errors = 0`
ResetErrors(n) == 0

\* What extraction can give: a record parsed from __NEXT_DATA__, a record
\* from the DOM fallback when it is enabled, or nothing.
ExtractionOutcomes(fallback) ==
    {"next_data", "none"} \cup (IF fallback THEN {"dom"} ELSE {})

\* Mutant of ContinuesAfterBlock: extraction goes on whatever _handle_block
\* returned.
ContinuesAfterBlock_Always(bypassed) == TRUE

\* `if self._handle_block(product_url): ... else: ... return None`
ContinuesAfterBlock(bypassed) == bypassed

\* The ways the try block of scrape_product_page can go, as call records.
VisitOutcomes(m, fallback, errors, may_solve) ==
    LET base == [Call("visit", errors) EXCEPT !.loaded = TRUE,
                                              !.events = <<"goto">>]
        extractions(c) ==
            { [c EXCEPT !.extracted = x, !.record = (x # "none"),
                        !.events = Append(c.events, "extract")] :
                 x \in ExtractionOutcomes(fallback) }
    IN { [base EXCEPT !.goto = g] : g \in {"timeout", "error"} }
       \cup extractions([base EXCEPT !.goto = "ok",
                                     !.events = <<"goto", "not_blocked">>])
       \cup UNION {
              LET c == [base EXCEPT !.goto = "ok", !.blocked = TRUE,
                                    !.why = h.why, !.bypassed = h.solved,
                                    !.attempted = h.attempted,
                                    !.succeeded = h.succeeded,
                                    !.backoff = BackoffApplied(h.solved),
                                    !.events = <<"goto", "blocked">> \o h.events]
              IN IF ContinuesAfterBlock(h.solved) THEN extractions(c) ELSE {c}
              : h \in { x \in HandleCaptchaOutcomes(m) : x.attempted => may_solve } }

\* The visit ended in `consecutive_errors += 1`: a timeout, another exception,
\* or a block that was not bypassed.
VisitFailed(c) == c.goto \in {"timeout", "error"} \/ (c.blocked /\ ~c.bypassed)

\* consecutive_errors after the visit recorded by c.
ErrorsAfter(n, c) == IF VisitFailed(c) THEN IncrementErrors(n) ELSE ResetErrors(n)

\* `if max_products and scraped_count >= max_products: break`
MaxProductsReached(mp, n) == mp.some /\ mp.v # 0 /\ n >= mp.v

\* Mutant of AfterVisit: a visit without record ends the crawl.
AfterVisit_HaltsOnFailure(c) == IF c.record THEN "loop" ELSE "returned"

\* The loop of scrape_from_sitemap after scrape_product_page returned: there
\* is no break or return on its result, the loop goes on.
AfterVisit(c) == "loop"

\* Mutant of CountSaved: a saved record counts twice.
CountSaved_Twice(n) == n + 2

\* `scraped_count += 1` after save_record returned True.
CountSaved(n) == n + 1

\* `if scraped_count > 0 and scraped_count % 10 == 0`
CheckpointDue(n) == n > 0 /\ n % 10 = 0

MaxProductsArgs == {NoInt} \cup {SomeInt(k) : k \in 0..MaxProductsArg}

\* WalmartCanadaScraper.__init__
ScraperInit ==
    /\ page = FALSE
    /\ session_warmed_up = FALSE
    /\ browser_warmed = FALSE
    /\ consecutive_errors = 0
    /\ captcha_solve_attempts = 0
    /\ captcha_solve_successes = 0
    /\ fallback_to_dom \in BOOLEAN
    /\ last = NoCall
    /\ crawl_pc = "idle"
    /\ max_products = NoInt
    /\ entries_left = 0
    /\ scraped_count = 0
    /\ checkpoints = 0
    /\ crawl_result = 0

\* The captcha_solver the scraper builds from its configuration.
ScraperManagerInit ==
    /\ mgr_config \in ScraperManagerConfigs
    /\ mgr = NewManager(mgr_config)
    /\ mgr_pc = "ready"
    /\ mgr_calls = <<>>
    /\ mgr_result = NoSolution
    /\ mgr_balances = NoBalances

\* What the caller made of a call of scrape_product_page that went as c
\* tells: on its own, nothing more; in the crawl loop, with `count` records
\* saved so far, save_record for a record returned, which gives True or
\* False, then the checkpoint test, unless start_browser raised out of it.
Completed(in_crawl, c, count) ==
    IF ~in_crawl \/ c.raised THEN {c}
    ELSE { [c EXCEPT !.saved = saved,
                     !.checkpointed = CheckpointDue(IF saved THEN CountSaved(count)
                                                    ELSE count)] :
           saved \in IF c.record THEN BOOLEAN ELSE {FALSE} }

\* One call of scrape_product_page, on its own or from the crawl loop
\* (in_crawl): start_browser and warmup_session when there is no page, then
\* the try block.
VisitAnd(in_crawl, url) ==
    /\ consecutive_errors < max_consecutive_errors + MaxOvershoot
    /\ \E launch \in StartBrowserOutcomes(page) :
          IF launch = "raised"
          THEN /\ last' \in Completed(in_crawl,
                                         [Call("visit", consecutive_errors)
                                             EXCEPT !.raised = TRUE, !.url = url],
                                         scraped_count)
               /\ UNCHANGED <<page, session_warmed_up, browser_warmed,
                              consecutive_errors,
                              captcha_solve_attempts, captcha_solve_successes>>
          ELSE /\ page' = TRUE
               /\ session_warmed_up' = (IF launch = "ok" THEN TRUE
                                        ELSE session_warmed_up)
               /\ browser_warmed' =
                     (IF launch = "ok"
                      THEN WarmedAfter(FALSE, session_warmed_up, TRUE)
                      ELSE browser_warmed)
               /\ \E c \in VisitOutcomes(mgr, fallback_to_dom, consecutive_errors,
                                         captcha_solve_attempts < MaxSolveAttempts) :
                     /\ IF launch = "ok"
                        THEN \E run \in WarmupRuns(session_warmed_up, TRUE) :
                                last' \in Completed(
                                    in_crawl,
                                    WithWarmup([c EXCEPT !.url = url],
                                               session_warmed_up, run),
                                    scraped_count)
                        ELSE last' \in Completed(in_crawl, [c EXCEPT !.url = url],
                                                  scraped_count)
                     /\ consecutive_errors' = ErrorsAfter(consecutive_errors, c)
                     /\ captcha_solve_attempts' =
                           (IF c.attempted THEN CountAttempt(captcha_solve_attempts)
                            ELSE captcha_solve_attempts)
                     /\ captcha_solve_successes' =
                           (IF c.succeeded THEN CountSuccess(captcha_solve_successes)
                            ELSE captcha_solve_successes)
    /\ UNCHANGED fallback_to_dom

\* scrape_product_page called for its result alone.
Visit == VisitAnd(FALSE, <<>>)

crawl_locals == <<crawl_pc, max_products, entries_left, scraped_count,
                  checkpoints, crawl_result>>

\* Outside a call of scrape_from_sitemap its argument, locals and result are
\* gone: the next operation called on the scraper finds none of them.
NoCrawl ==
    /\ crawl_pc' = "idle"
    /\ max_products' = NoInt
    /\ entries_left' = 0
    /\ scraped_count' = 0
    /\ checkpoints' = 0
    /\ crawl_result' = 0

\* start_browser called by the client.
StartBrowser ==
    /\ crawl_pc # "loop"
    /\ \E launch \in StartBrowserOutcomes(page) :
          /\ page' = (launch # "raised")
          /\ last' = [Call("start_browser", consecutive_errors)
                         EXCEPT !.raised = (launch = "raised")]
          /\ browser_warmed' = (launch = "running" /\ browser_warmed)
    /\ NoCrawl
    /\ UNCHANGED <<session_warmed_up, consecutive_errors, captcha_solve_attempts,
                   captcha_solve_successes, fallback_to_dom>>

\* stop_browser called by the client.
StopBrowser ==
    /\ crawl_pc # "loop"
    /\ page' = FALSE
    /\ browser_warmed' = FALSE
    /\ last' = Call("stop_browser", consecutive_errors)
    /\ NoCrawl
    /\ UNCHANGED <<session_warmed_up, consecutive_errors, captcha_solve_attempts,
                   captcha_solve_successes, fallback_to_dom>>

\* warmup_session called by the client: every failure of a warmup page is
\* caught, and the session ends up marked as warmed up.
WarmupSession ==
    /\ crawl_pc # "loop"
    /\ session_warmed_up' = TRUE
    /\ browser_warmed' = WarmedAfter(browser_warmed, session_warmed_up, page)
    /\ \E run \in WarmupRuns(session_warmed_up, page) :
          last' = WithWarmup(Call("warmup_session", consecutive_errors),
                             session_warmed_up, run)
    /\ NoCrawl
    /\ UNCHANGED <<page, consecutive_errors, captcha_solve_attempts,
                   captcha_solve_successes, fallback_to_dom>>

\* scrape_product_page called by the client.
ScrapeProductPage ==
    /\ crawl_pc # "loop"
    /\ Visit
    /\ NoCrawl

\* scrape_from_sitemap up to its loop: the sitemap URL is resolved, the browser
\* started and warmed up, and get_product_urls gives the list to visit; it
\* holds at most max_products entries when that limit is given and not 0.
ScrapeFromSitemap ==
    /\ crawl_pc # "loop"
    /\ scraped_count' = 0
    /\ crawl_result' = 0
    /\ \E mp \in MaxProductsArgs, has_url \in BOOLEAN :
          /\ max_products' = mp
          /\ IF ~has_url
             THEN /\ crawl_pc' = "returned"
                  /\ entries_left' = 0
                  /\ last' = Call("scrape_from_sitemap", consecutive_errors)
                  /\ UNCHANGED <<page, session_warmed_up, browser_warmed>>
             ELSE \E launch \in StartBrowserOutcomes(page) :
                     IF launch = "raised"
                     THEN /\ crawl_pc' = "raised"
                          /\ entries_left' = 0
                          /\ last' = Call("scrape_from_sitemap", consecutive_errors)
                          /\ UNCHANGED <<page, session_warmed_up, browser_warmed>>
                     ELSE /\ page' = TRUE
                          /\ session_warmed_up' = TRUE
                          /\ browser_warmed' =
                                WarmedAfter(launch = "running" /\ browser_warmed,
                                            session_warmed_up, TRUE)
                          /\ \E run \in WarmupRuns(session_warmed_up, TRUE) :
                                last' = WithWarmup(
                                    Call("scrape_from_sitemap", consecutive_errors),
                                    session_warmed_up, run)
                          /\ \E n \in 0..MaxEntries :
                                /\ LimitReached(mp, 1) => n <= mp.v
                                /\ entries_left' = n
                                /\ crawl_pc' = IF n = 0 THEN "returned" ELSE "loop"
    /\ checkpoints' = 0
    /\ UNCHANGED <<consecutive_errors, captcha_solve_attempts,
                   captcha_solve_successes, fallback_to_dom>>

\* One iteration of `for entry in product_entries`.
CrawlIteration ==
    /\ crawl_pc = "loop"
    /\ entries_left > 0
    /\ ~MaxProductsReached(max_products, scraped_count)
    /\ entries_left' = entries_left - 1
    /\ \E loc \in CrawlLocs :
          IF SkipsEntry(loc)
          THEN /\ last' = [Call("skip", consecutive_errors) EXCEPT !.url = loc]
               /\ UNCHANGED <<page, session_warmed_up, browser_warmed,
                              consecutive_errors,
                              captcha_solve_attempts, captcha_solve_successes,
                              fallback_to_dom, crawl_pc, scraped_count, checkpoints>>
          ELSE /\ VisitAnd(TRUE, loc)
               /\ IF last'.raised
                  THEN /\ crawl_pc' = "raised"
                       /\ UNCHANGED <<scraped_count, checkpoints>>
                  ELSE /\ crawl_pc' = AfterVisit(last')
                       /\ scraped_count' = IF last'.saved
                                           THEN CountSaved(scraped_count)
                                           ELSE scraped_count
                       /\ checkpoints' = IF last'.checkpointed
                                         THEN checkpoints + 1 ELSE checkpoints
    /\ UNCHANGED <<max_products, crawl_result>>

\* The loop of scrape_from_sitemap is over, by exhaustion of the list or by
\* the break on max_products: `return scraped_count`.
CrawlReturn ==
    /\ crawl_pc = "loop"
    /\ entries_left = 0 \/ MaxProductsReached(max_products, scraped_count)
    /\ crawl_pc' = "returned"
    /\ crawl_result' = scraped_count
    /\ last' = Call("return", consecutive_errors)
    /\ UNCHANGED <<page, session_warmed_up, browser_warmed, consecutive_errors,
                   captcha_solve_attempts, captcha_solve_successes,
                   fallback_to_dom, max_products, entries_left,
                   scraped_count, checkpoints>>

CrawlNext ==
    \/ (StartBrowser /\ UNCHANGED <<sm_vars, mgr_vars, prov_vars, flt_vars, xml_vars, fetch_vars, ses_vars>>)
    \/ (StopBrowser /\ UNCHANGED <<sm_vars, mgr_vars, prov_vars, flt_vars, xml_vars, fetch_vars, ses_vars>>)
    \/ (WarmupSession /\ UNCHANGED <<sm_vars, mgr_vars, prov_vars, flt_vars, xml_vars, fetch_vars, ses_vars>>)
    \/ (ScrapeProductPage /\ UNCHANGED <<sm_vars, mgr_vars, prov_vars, flt_vars, xml_vars, fetch_vars, ses_vars>>)
    \/ (ScrapeFromSitemap /\ UNCHANGED <<sm_vars, mgr_vars, prov_vars, flt_vars, xml_vars, fetch_vars, ses_vars>>)
    \/ (CrawlIteration /\ UNCHANGED <<sm_vars, mgr_vars, prov_vars, flt_vars, xml_vars, fetch_vars, ses_vars>>)
    \/ (CrawlReturn /\ UNCHANGED <<sm_vars, mgr_vars, prov_vars, flt_vars, xml_vars, fetch_vars, ses_vars>>)

\* A scraper that is not part of the run.
ScraperIdle == ScraperInit /\ fallback_to_dom = FALSE

\* A manager that is not part of the run: the default, disabled configuration.
ManagerIdle ==
    /\ mgr_config = [enabled |-> FALSE, primary_provider |-> "capsolver",
                     fallback_provider |-> NoProvider,
                     providers |-> <<>>, max_retries |-> MaxRetries]
    /\ mgr = NewManager(mgr_config)
    /\ mgr_pc = "ready"
    /\ mgr_calls = <<>>
    /\ mgr_result = NoSolution
    /\ mgr_balances = NoBalances

\* A traversal that is not part of the run.
SitemapIdle ==
    /\ sm_args = [url |-> RootUrl, recursive |-> TRUE, since |-> NoDatetime,
                  url_filter |-> "product", max_urls |-> NoInt]
    /\ urls_yielded = 0
    /\ visited_sitemaps = {}
    /\ sitemap_queue = <<>>
    /\ sm_pc = "done"
    /\ fetched = <<>>
    /\ yielded = <<>>
    /\ skipped = {}
    /\ enqueued = <<>>
    /\ sm_last = LastStep("call", RootUrl, "end", <<>>, <<>>)

----------------------------------------------------------------------------
(* The browser session: start_browser, stop_browser and run_demo *)

MaxDemoCount == 3

NoHandles == [playwright |-> FALSE, browser |-> FALSE, context |-> FALSE, page |-> FALSE]

AllHandles == [playwright |-> TRUE, browser |-> TRUE, context |-> TRUE, page |-> TRUE]

\* The statements of start_browser after its guard, in order.
StartSteps == <<"start", "launch", "new_context", "add_init_script", "new_page">>

\* The statement of start_browser that raises; 0 when none does.
StartFailures == 0..Len(StartSteps)

\* The handle a statement of start_browser assigns.
Assigned(h, step) ==
    CASE step = "start" -> [h EXCEPT !.playwright = TRUE]
      [] step = "launch" -> [h EXCEPT !.browser = TRUE]
      [] step = "new_context" -> [h EXCEPT !.context = TRUE]
      [] step = "new_page" -> [h EXCEPT !.page = TRUE]
      [] OTHER -> h

\* The statements from the i-th on, up to the one that raises.
RECURSIVE RunStart(_, _, _)
RunStart(h, i, fail) ==
    IF i > Len(StartSteps) \/ i = fail
    THEN h
    ELSE RunStart(Assigned(h, StartSteps[i]), i + 1, fail)

\* start_browser: `if self.browser: return`, then the statements in order.
start_browser(h, fail) ==
    IF h.browser
    THEN [handles |-> h, raised |-> FALSE]
    ELSE [handles |-> RunStart(h, 1, fail), raised |-> fail # 0]

\* The order in which stop_browser goes through the handles.
StopOrder == <<"page", "context", "browser", "playwright">>

\* Mutant of Released: only the page is closed.
Released_PageOnly(h, name) ==
    IF name = "page" /\ h[name] THEN [h EXCEPT ![name] = FALSE] ELSE h

\* `if self.page: self.page.close(); self.page = None`, and the same for the
\* context, the browser and playwright.
Released(h, name) == IF h[name] THEN [h EXCEPT ![name] = FALSE] ELSE h

RECURSIVE StopFrom(_, _)
StopFrom(h, i) ==
    IF i > Len(StopOrder) THEN h ELSE StopFrom(Released(h, StopOrder[i]), i + 1)

stop_browser(h) == StopFrom(h, 1)

\* `finally: self.stop_browser()` runs however the try block ended.
DemoCleanup(h, raised) == stop_browser(h)

Outcome(raised, stage, count) == [raised |-> raised, stage |-> stage, count |-> count]

NoOutcome == Outcome(FALSE, "none", 0)

\* The ways the try block of run_demo ends once the browser call of
\* scrape_from_sitemap is past: the crawl returns a count and the two reports
\* run, or one of the three raises. Without a page every visit fails inside
\* scrape_product_page, so the count is 0.
BodyOutcomes(h) ==
    { Outcome(FALSE, "return", n) : n \in (IF h.page THEN 0..MaxDemoCount ELSE {0}) }
    \cup { Outcome(TRUE, stage, 0) :
             stage \in {"scrape_from_sitemap", "print_stats", "export_to_csv"} }

SessionCall(op, raised, before) == [op |-> op, raised |-> raised, before |-> before]

SessionInit ==
    /\ handles = NoHandles
    /\ ses_pc = "idle"
    /\ demo_outcome = NoOutcome
    /\ ses_last = SessionCall("init", FALSE, NoHandles)

\* A session that is not part of the run.
SessionIdle ==
    /\ handles = NoHandles
    /\ ses_pc = "returned"
    /\ demo_outcome = NoOutcome
    /\ ses_last = SessionCall("stop_browser", FALSE, NoHandles)

InDemo == ses_pc \in {"try", "finally"}

\* scraper.start_browser()
SessionStart ==
    /\ ~InDemo
    /\ \E fail \in StartFailures :
          /\ handles' = start_browser(handles, fail).handles
          /\ ses_last' = SessionCall("start_browser",
                                     start_browser(handles, fail).raised, handles)
    /\ UNCHANGED <<ses_pc, demo_outcome>>

\* scraper.stop_browser()
SessionStop ==
    /\ ~InDemo
    /\ handles' = stop_browser(handles)
    /\ ses_last' = SessionCall("stop_browser", FALSE, handles)
    /\ UNCHANGED <<ses_pc, demo_outcome>>

\* run_demo enters its try block: scrape_from_sitemap calls start_browser.
DemoCall ==
    /\ ~InDemo
    /\ \E fail \in StartFailures :
          LET r == start_browser(handles, fail) IN
          /\ handles' = r.handles
          /\ ses_pc' = IF r.raised THEN "finally" ELSE "try"
          /\ demo_outcome' = IF r.raised THEN Outcome(TRUE, "start_browser", 0)
                                         ELSE NoOutcome
    /\ ses_last' = SessionCall("run_demo", FALSE, handles)

\* The rest of the try block: the crawl, print_stats and export_to_csv.
DemoBody ==
    /\ ses_pc = "try"
    /\ \E out \in BodyOutcomes(handles) : demo_outcome' = out
    /\ ses_pc' = "finally"
    /\ ses_last' = SessionCall("try", FALSE, handles)
    /\ UNCHANGED handles

\* The finally block, then the return or the exception going on to the caller.
DemoFinally ==
    /\ ses_pc = "finally"
    /\ handles' = DemoCleanup(handles, demo_outcome.raised)
    /\ ses_pc' = IF demo_outcome.raised THEN "raised" ELSE "returned"
    /\ ses_last' = SessionCall("finally", demo_outcome.raised, handles)
    /\ UNCHANGED demo_outcome

SessionNext ==
    \/ (SessionStart
        /\ UNCHANGED <<sm_vars, mgr_vars, prov_vars, flt_vars, xml_vars, fetch_vars,
                       crawl_vars>>)
    \/ (SessionStop
        /\ UNCHANGED <<sm_vars, mgr_vars, prov_vars, flt_vars, xml_vars, fetch_vars,
                       crawl_vars>>)
    \/ (DemoCall
        /\ UNCHANGED <<sm_vars, mgr_vars, prov_vars, flt_vars, xml_vars, fetch_vars,
                       crawl_vars>>)
    \/ (DemoBody
        /\ UNCHANGED <<sm_vars, mgr_vars, prov_vars, flt_vars, xml_vars, fetch_vars,
                       crawl_vars>>)
    \/ (DemoFinally
        /\ UNCHANGED <<sm_vars, mgr_vars, prov_vars, flt_vars, xml_vars, fetch_vars,
                       crawl_vars>>)

----------------------------------------------------------------------------
SitemapSpecInit ==
    SitemapInit /\ ManagerIdle /\ ProviderIdle /\ FilterIdle /\ XmlIdle /\ FetchIdle /\ SessionIdle /\ ScraperIdle

SitemapSpec == SitemapSpecInit /\ [][SitemapNext]_vars

ManagerNext ==
    \/ (SolvePerimeterx /\ UNCHANGED <<sm_vars, prov_vars, crawl_vars, flt_vars, xml_vars, fetch_vars, ses_vars>>)
    \/ (GetBalances /\ UNCHANGED <<sm_vars, prov_vars, crawl_vars, flt_vars, xml_vars, fetch_vars, ses_vars>>)

ManagerSpecInit ==
    ManagerInit /\ SitemapIdle /\ ProviderIdle /\ FilterIdle /\ XmlIdle /\ FetchIdle /\ SessionIdle /\ ScraperIdle

CrawlSpecInit ==
    ScraperInit /\ ScraperManagerInit /\ ProviderIdle /\ FilterIdle /\ XmlIdle /\ FetchIdle /\ SessionIdle /\ SitemapIdle

CrawlSpec == CrawlSpecInit /\ [][CrawlNext]_vars

ManagerSpec == ManagerSpecInit /\ [][ManagerNext]_vars

ProviderSpecInit ==
    ProviderInit /\ ManagerIdle /\ SitemapIdle /\ FilterIdle /\ XmlIdle /\ FetchIdle /\ SessionIdle /\ ScraperIdle

FilterSpecInit ==
    FilterInit /\ ManagerIdle /\ SitemapIdle /\ ProviderIdle /\ XmlIdle /\ FetchIdle /\ SessionIdle /\ ScraperIdle

XmlSpecInit ==
    XmlInit /\ ManagerIdle /\ SitemapIdle /\ ProviderIdle /\ FilterIdle /\ FetchIdle /\ SessionIdle
    /\ ScraperIdle

XmlSpec == XmlSpecInit /\ [][XmlNext]_vars

FetchSpecInit ==
    FetchInit /\ ManagerIdle /\ SitemapIdle /\ ProviderIdle /\ FilterIdle /\ XmlIdle
    /\ SessionIdle /\ ScraperIdle

FetchSpec == FetchSpecInit /\ [][FetchNext]_vars

SessionSpecInit ==
    SessionInit /\ ManagerIdle /\ SitemapIdle /\ ProviderIdle /\ FilterIdle /\ XmlIdle
    /\ FetchIdle /\ ScraperIdle

SessionSpec == SessionSpecInit /\ [][SessionNext]_vars

FilterSpec == FilterSpecInit /\ [][FilterNext]_vars

ProviderSpec == ProviderSpecInit /\ [][ProviderNext]_vars

\* The call runs to its end: the thread in solve_perimeterx is not stopped.
ProviderLiveSpec == ProviderSpec /\ WF_vars(ProviderNext)

\* The generator is driven to completion by list(...): every iteration runs.
SitemapLiveSpec == SitemapSpec /\ WF_vars(SitemapNext)

----------------------------------------------------------------------------
(* Claims about parse_sitemap / get_product_urls *)

FetchedUrls == [i \in 1..Len(fetched) |-> fetched[i].url]

FetchedAtMostOnce == \A u \in SitemapUrls : Count(FetchedUrls, u) <= 1

\* max_urls is given and positive.
HasLimit == sm_args.max_urls.some /\ sm_args.max_urls.v >= 1

\* The call is the one get_product_urls makes.
IsGetProductUrls == sm_args.recursive /\ sm_args.url_filter = "product"

\* A measure of the work left: sitemap URLs not fetched yet, weighted above
\* anything one fetch can add to the queue, then the queue, then the pending
\* return.
TraversalVariant ==
    Cardinality(SitemapUrls \ visited_sitemaps) * (MaxNested + 2)
      + Len(sitemap_queue) + (IF sm_pc = "loop" THEN 1 ELSE 0)

\* C1: on a sitemap graph with a cycle (a sitemap references the root again,
\* or itself) the traversal terminates, and every sitemap URL is fetched at
\* most once: every sitemap URL is fetched at most once, the loop can always
\* take its next iteration until the generator returns, and every iteration
\* strictly decreases a natural-valued measure.
C1_TerminatesFetchingOnce ==
    /\ [](/\ FetchedAtMostOnce
          /\ TraversalVariant >= 0
          /\ (sm_pc # "done" => ENABLED SitemapNext))
    /\ [][TraversalVariant' < TraversalVariant]_vars

\* The same termination, as a liveness property of SitemapLiveSpec.
SitemapTerminates == <>(sm_pc = "done")

\* The traversal ran to its end although a nested document referenced the
\* root again and another sitemap was referenced twice.
C1_Witness ==
    /\ sm_pc = "done"
    /\ sm_last.op = "exhausted"
    /\ RootUrl \in skipped
    /\ Cardinality(skipped) >= 2
    /\ Len(fetched) = Cardinality(SitemapUrls)

\* The filters as documented: an entry is dropped when `since` is given and
\* its lastmod is older, or when url_filter rejects its loc.
PassesFilters(args, e) ==
    /\ ~(args.since.some /\ e.lastmod.some /\ e.lastmod.t < args.since.t)
    /\ (args.url_filter = "none" \/ IsProductUrl(e.loc))

\* The root was an index and every other document fetched so far a url-set,
\* none referenced twice.
IndexOfUrlSets ==
    /\ skipped = {}
    /\ \A i \in 1..Len(fetched) :
          fetched[i].kind = (IF i = 1 THEN "index" ELSE "urlset")

\* No comparison of a lastmod with `since` can raise: `since` is not given.
NoSinceGiven == ~sm_args.since.some

\* C2: on an acyclic index of N url-set documents, with recursive = true and
\* no max_urls, each document is fetched exactly once, in FIFO order of
\* enqueueing, and each document yields exactly its entries that pass the
\* since/url_filter filters, in document order.
C2_FifoUnion ==
    (sm_args.recursive /\ ~sm_args.max_urls.some /\ IndexOfUrlSets) =>
        /\ FetchedAtMostOnce
        /\ (sm_last.op = "urlset" =>
               /\ sm_last.out = SelectSeq(sm_last.entries,
                                           LAMBDA e : PassesFilters(sm_args, e))
               /\ Len(yielded) >= Len(sm_last.out)
               /\ SubSeq(yielded, Len(yielded) - Len(sm_last.out) + 1,
                         Len(yielded)) = sm_last.out)
        /\ (sm_pc = "done" => FetchedUrls = enqueued)

\* C2 restricted to calls without `since`, where no comparison can raise.
C2_FifoUnionWithoutSince == NoSinceGiven => C2_FifoUnion

\* Both url-sets of an index were fetched and the traversal is over.
C2_Witness ==
    /\ sm_args.recursive /\ ~sm_args.max_urls.some /\ IndexOfUrlSets
    /\ sm_pc = "done"
    /\ Len(fetched) = 3
    /\ Len(yielded) >= 2

\* C3: with max_urls = k >= 1 the traversal never emits more than k entries,
\* it is over as soon as the k-th entry is emitted (so nothing is fetched
\* afterwards), and it ends with fewer than k entries only when the source is
\* exhausted (the queue is empty).
C3_ExactlyKNoFetchAfter ==
    /\ [](HasLimit =>
            /\ Len(yielded) <= sm_args.max_urls.v
            /\ urls_yielded = Len(yielded)
            /\ (Len(yielded) = sm_args.max_urls.v =>
                   sm_pc = "done" /\ sm_last.status = "return")
            /\ (sm_pc = "done" /\ Len(yielded) < sm_args.max_urls.v =>
                   sitemap_queue = <<>> /\ sm_last.op = "exhausted"))
    /\ [][HasLimit /\ Len(yielded) >= sm_args.max_urls.v =>
             fetched' = fetched /\ yielded' = yielded]_vars

\* get_product_urls(max_urls = 2) returned exactly 2 entries while sitemap
\* URLs were still pending in the queue.
C3_Witness ==
    /\ IsGetProductUrls
    /\ sm_args.max_urls = SomeInt(2)
    /\ sm_pc = "done"
    /\ Len(yielded) = 2
    /\ sitemap_queue # <<>>
    /\ \E i \in 1..Len(sitemap_queue) : sitemap_queue[i] \notin visited_sitemaps

----------------------------------------------------------------------------
(* Claims about CaptchaSolverManager.solve_perimeterx *)

CallSucceeded(c) == ~c.outcome.raised /\ c.outcome.solution.success

CallsTo(provider) == {i \in 1..Len(mgr_calls) : mgr_calls[i].provider = provider}

\* Both providers are initialized and distinct, and at least one attempt is
\* allowed per provider.
TwoProviders ==
    /\ IsAvailable(mgr)
    /\ mgr.primary_provider \in mgr.solvers
    /\ mgr.fallback_provider \in mgr.solvers
    /\ mgr.fallback_provider # mgr.primary_provider
    /\ mgr.max_retries >= 1

\* Every call made to the primary failed, and the first call made to the
\* fallback (if the fallback was called at all) succeeded.
PrimaryFailsFallbackSucceeds ==
    /\ \A i \in CallsTo(mgr.primary_provider) : ~CallSucceeded(mgr_calls[i])
    /\ \A i \in CallsTo(mgr.fallback_provider) :
          (\A j \in CallsTo(mgr.fallback_provider) : i <= j) =>
              CallSucceeded(mgr_calls[i])

\* C4: when the primary fails on every retry and the fallback succeeds on its
\* first attempt, the call returns the fallback's solution after exactly
\* max_retries calls to the primary followed by exactly one call to the
\* fallback.
C4_FallbackAfterRetries ==
    (mgr_pc \in {"returned", "raised"} /\ TwoProviders
        /\ PrimaryFailsFallbackSucceeds) =>
        /\ mgr_pc = "returned"
        /\ Len(mgr_calls) = mgr.max_retries + 1
        /\ \A i \in 1..mgr.max_retries :
              mgr_calls[i].provider = mgr.primary_provider
        /\ mgr_calls[Len(mgr_calls)].provider = mgr.fallback_provider
        /\ mgr_result = mgr_calls[Len(mgr_calls)].outcome.solution
        /\ mgr_result.success

\* The primary failed twice, once by raising, and the fallback's first call
\* gave the solution returned.
C4_Witness ==
    /\ mgr_pc = "returned" /\ TwoProviders /\ PrimaryFailsFallbackSucceeds
    /\ mgr.max_retries = 2
    /\ Len(mgr_calls) = 3
    /\ mgr_calls[1].outcome.raised
    /\ mgr_calls[3].provider = mgr.fallback_provider
    /\ mgr_result.success /\ mgr_result.token # ""

\* C5: the call returns the first successful solution met in the order
\* primary-then-fallback (no call follows a success, no primary call follows
\* a fallback call); when every attempt failed it returns a failed solution
\* whose error ends with the error of the last failed attempt; and no
\* exception escapes.
C5_FirstSuccessOrLastError ==
    mgr_pc \in {"returned", "raised"} =>
        /\ mgr_pc = "returned"
        /\ \A i \in 1..Len(mgr_calls) :
              /\ (CallSucceeded(mgr_calls[i]) =>
                     i = Len(mgr_calls) /\ mgr_result = mgr_calls[i].outcome.solution)
              /\ (mgr_calls[i].provider = mgr.fallback_provider
                   /\ mgr.fallback_provider # mgr.primary_provider =>
                     \A j \in i..Len(mgr_calls) :
                        mgr_calls[j].provider = mgr.fallback_provider)
        /\ ((\A i \in 1..Len(mgr_calls) : ~CallSucceeded(mgr_calls[i])) =>
               /\ ~mgr_result.success
               /\ (Len(mgr_calls) > 0 =>
                      /\ Len(mgr_result.error) = 2
                      /\ mgr_result.error[2] =
                            ErrorText(mgr_calls[Len(mgr_calls)].outcome.solution.error)))

\* Every attempt of both providers failed, the last one by raising, and the
\* failure returned names that exception.
C5_Witness ==
    /\ mgr_pc = "returned" /\ TwoProviders
    /\ Len(mgr_calls) = 2 * mgr.max_retries
    /\ mgr_calls[Len(mgr_calls)].outcome.raised
    /\ ~mgr_result.success
    /\ mgr_result.error[2] = "provider raised"

----------------------------------------------------------------------------
(* Claims about WalmartCanadaScraper's visits and crawl *)

\* The step is a call of scrape_product_page (every operation records itself
\* in `last`).
IsVisit == last'.op = "visit"

UnresolvedBlock(c) == c.op = "visit" /\ c.blocked /\ ~c.bypassed

NotBlockedOrBypassed(c) ==
    c.op = "visit" /\ c.goto = "ok" /\ (~c.blocked \/ c.bypassed)

\* C6: a visit whose page shows a block that is not resolved (solver
\* unavailable, solving failed, or still blocked after injection and reload)
\* increments consecutive_errors by exactly 1, applies the backoff delay and
\* returns no record.
C6_UnresolvedBlockCountsOnce ==
    [][UnresolvedBlock(last') =>
          /\ last'.why \in {"unavailable", "solve_failed", "no_token",
                            "inject_error", "still_blocked"}
          /\ consecutive_errors' = consecutive_errors + 1
          /\ last'.backoff
          /\ ~last'.record]_vars

\* A third failure in a row came from a page still blocked after the token
\* was injected.
C6_Witness ==
    /\ UnresolvedBlock(last)
    /\ last.why = "still_blocked"
    /\ last.succeeded
    /\ last.backoff
    /\ consecutive_errors = 3

\* C7: once consecutive_errors has reached max_consecutive_errors every later
\* visit is refused: no page load, and the counter never exceeds the maximum.
C7_StoppedRefusesVisits ==
    /\ [](consecutive_errors <= max_consecutive_errors)
    /\ [][consecutive_errors >= max_consecutive_errors /\ IsVisit =>
             ~last'.loaded /\ consecutive_errors' = consecutive_errors]_vars

\* C8: when a visit of the crawl loop leaves consecutive_errors at the maximum
\* the crawl halts: the next step is the return of the count so far, and no
\* further entry is visited.
C8_CrawlHaltsAtMax ==
    [][crawl_pc = "loop" /\ last.op = "visit"
       /\ consecutive_errors >= max_consecutive_errors =>
             /\ last'.op = "return"
             /\ crawl_pc' = "returned"
             /\ crawl_result' = scraped_count]_vars

\* C9: a visit whose page is not blocked, or whose block was bypassed, leaves
\* consecutive_errors at 0 whatever it was before.
C9_SuccessResets == NotBlockedOrBypassed(last) => consecutive_errors = 0

\* After earlier failures a blocked page was bypassed and the counter is 0.
C9_Witness ==
    /\ NotBlockedOrBypassed(last)
    /\ last.blocked /\ last.bypassed
    /\ last.after_errors
    /\ consecutive_errors = 0

\* consecutive_errors grows only by 1, only in a visit that failed (timeout,
\* exception or unresolved block), and no other operation changes it.
CounterGrowsOnlyOnFailure ==
    /\ consecutive_errors' > consecutive_errors =>
          /\ IsVisit /\ VisitFailed(last')
          /\ consecutive_errors' = consecutive_errors + 1
    /\ ~IsVisit => consecutive_errors' = consecutive_errors

\* C10 as stated: the counter is reset only by a visit that extracted a
\* record, and grows only by 1 in a failed visit; other operations leave it.
C10_ResetOnlyOnExtraction ==
    [][/\ consecutive_errors' < consecutive_errors =>
             IsVisit /\ consecutive_errors' = 0 /\ last'.record
       /\ CounterGrowsOnlyOnFailure]_vars

\* C10, amended: the counter is reset only by a visit whose loaded page is not
\* blocked or whose block was bypassed, whether or not a record is extracted;
\* it grows only by 1 in a failed visit; warmup, the crawl's traversal, return
\* and checkpointing, and browser start and stop leave it unchanged.
C10_ResetOnlyOnUnblockedVisit ==
    [][/\ consecutive_errors' < consecutive_errors =>
             IsVisit /\ consecutive_errors' = 0 /\ NotBlockedOrBypassed(last')
       /\ CounterGrowsOnlyOnFailure]_vars

\* After earlier failures a page that was not blocked gave no record, and the
\* counter is back at 0.
C10_Witness ==
    /\ NotBlockedOrBypassed(last)
    /\ ~last.blocked
    /\ ~last.record
    /\ last.after_errors
    /\ consecutive_errors = 0

----------------------------------------------------------------------------
(* Claims about parse_sitemap: duplicates, the since filter, failures *)

LocsOf(entries) == [i \in 1..Len(entries) |-> entries[i].loc]

\* C11 as stated: within one get_product_urls call no location is yielded
\* twice.
C11_NoDuplicateLocation ==
    IsGetProductUrls =>
        \A i, j \in 1..Len(yielded) : i < j => yielded[i].loc # yielded[j].loc

\* C11, amended: no sitemap document is fetched twice and a document yields a
\* location at most as often as it holds it, each fetch appending what the
\* document yielded; a location is thus yielded once per occurrence in the
\* documents fetched, not once per call.
C11_OncePerOccurrence ==
    /\ [](/\ FetchedAtMostOnce
          /\ \A i \in 1..Len(sm_last.out) :
                Count(LocsOf(sm_last.out), sm_last.out[i].loc)
                   <= Count(LocsOf(sm_last.entries), sm_last.out[i].loc))
    /\ [][yielded' = yielded \o (IF fetched' # fetched THEN sm_last'.out
                                  ELSE <<>>)]_vars

\* get_product_urls yielded the same location from the second and from the
\* third document fetched.
C11_Witness ==
    /\ IsGetProductUrls
    /\ Len(fetched) = 3
    /\ fetched[2].kind = "urlset"
    /\ sm_last.op = "urlset" /\ sm_last.url = fetched[3].url
    /\ Len(sm_last.out) = 1
    /\ Len(yielded) = 2
    /\ yielded[1].loc = yielded[2].loc

\* C12: with since = T the entries loop drops exactly the entries whose
\* lastmod is older than T; entries with lastmod >= T or without lastmod are
\* all yielded (no url_filter, no max_urls).
C12_SinceFilter ==
    (/\ sm_last.op = "urlset"
     /\ sm_args.since.some
     /\ sm_args.url_filter = "none"
     /\ ~sm_args.max_urls.some) =>
        sm_last.out = SelectSeq(sm_last.entries,
                          LAMBDA e : ~(e.lastmod.some /\ e.lastmod.t < sm_args.since.t))

\* The last iteration fetched a URL and failed: the fetch raised, the body
\* was malformed, or an exception left the entries loop.
FailedIteration ==
    \/ sm_last.op \in {"fetch_error", "malformed"}
    \/ sm_last.status = "raised"

\* C13: a fetch or parse failure of one sitemap URL does not end the
\* traversal, which ends only by exhaustion of the queue or at max_urls; the
\* failing iteration consumes its URL only and takes back nothing yielded;
\* every URL queued is still fetched, and a document processed without
\* failure yields all its entries that pass the filters (up to max_urls).
C13_FailureDoesNotAbort ==
    /\ [](/\ (sm_pc = "done" =>
                \/ sm_last.op = "exhausted" /\ sitemap_queue = <<>>
                \/ sm_last.status = "return")
          /\ (FailedIteration => sm_pc = "loop")
          /\ (sm_last.op = "exhausted" => FetchedUrls = enqueued)
          /\ (sm_last.op = "urlset" /\ sm_last.status = "end" =>
                sm_last.out = SelectSeq(sm_last.entries,
                                  LAMBDA e : PassesFilters(sm_args, e))))
    /\ [][/\ Len(yielded') >= Len(yielded)
          /\ SubSeq(yielded', 1, Len(yielded)) = yielded
          /\ (fetched' # fetched => sitemap_queue' = Tail(sitemap_queue)
                                       \o SubSeq(sitemap_queue', Len(sitemap_queue),
                                                 Len(sitemap_queue')))]_vars

\* The second URL of an index failed to fetch and the third, fetched after
\* it, yielded its two entries before the queue ran out.
C13_Witness ==
    /\ sm_last.op = "exhausted"
    /\ Len(fetched) = 3
    /\ fetched[2].kind = "fetch_error"
    /\ fetched[3].kind = "urlset"
    /\ Len(yielded) = 2

----------------------------------------------------------------------------
(* Claims about CaptchaSolverManager: availability, construction, balances *)

\* The names of config["providers"] with a non-empty api_key that the factory
\* knows.
UsableProviders(config) ==
    { config.providers[i].name : i \in
        { k \in 1..Len(config.providers) :
            /\ config.providers[k].api_key # NoKey
            /\ config.providers[k].name \in PROVIDERS } }

\* The manager went on to its providers: it called one, or it returned the
\* error of the provider loop.
WentToProviders ==
    \/ mgr_calls # <<>>
    \/ mgr_pc = "raised"
    \/ (mgr_pc = "returned" /\ mgr_result.error # <<>>
            /\ mgr_result.error[1] = "All CAPTCHA solvers failed. Last error: ")

\* C14: is_available() is true if and only if the manager is enabled and at
\* least one provider was initialized, and a disabled manager has no
\* initialized provider whatever API keys its configuration holds. The
\* availability is observed through solve_perimeterx, which goes on to the
\* providers exactly when is_available() is true.
C14_AvailableIffEnabledWithProvider ==
    /\ IsAvailable(mgr) <=> (mgr_config.enabled /\ mgr.solvers # {})
    /\ ~mgr_config.enabled => mgr.solvers = {}
    /\ mgr_pc \in {"returned", "raised"} =>
          (WentToProviders <=> (mgr_config.enabled /\ mgr.solvers # {}))

\* A disabled manager configured with usable keys has returned from
\* solve_perimeterx, and an enabled manager without usable keys has too.
C14_Witness ==
    /\ mgr_pc = "returned"
    /\ ~WentToProviders
    /\ \/ (~mgr_config.enabled /\ UsableProviders(mgr_config) = PROVIDERS)
       \/ (mgr_config.enabled /\ UsableProviders(mgr_config) = {}
              /\ Len(mgr_config.providers) = Cardinality(ProviderNames))

\* C15: when the manager is not available (disabled, or no provider
\* initialized), solve_perimeterx returns a failure solution at once, without
\* calling any provider.
C15_UnavailableFailsWithoutCall ==
    (mgr_pc \in {"returned", "raised"} /\ ~(mgr.enabled /\ mgr.solvers # {})) =>
        /\ mgr_pc = "returned"
        /\ mgr_calls = <<>>
        /\ ~mgr_result.success
        /\ mgr_result.error = <<"CAPTCHA solving is not configured or enabled">>

\* An enabled manager whose primary provider is configured, but without a
\* key, has returned from solve_perimeterx.
C15_Witness ==
    /\ mgr_pc = "returned"
    /\ mgr.enabled /\ mgr.solvers = {}
    /\ \E i \in 1..Len(mgr_config.providers) :
          mgr_config.providers[i].name = mgr.primary_provider
    /\ mgr_calls = <<>>

QueryFailed(query) == query.kind \in {"error_response", "transport_error"}

\* C17: get_balances queries every initialized provider and returns one
\* amount per provider; a provider whose balance query failed is reported
\* with a negative amount, and the others with the balance they answered.
C17_FailedQueryGivesNegative ==
    mgr_balances.called =>
        /\ DOMAIN mgr_balances.balances = mgr.solvers
        /\ \A name \in mgr.solvers :
              IF QueryFailed(mgr_balances.queries[name])
              THEN mgr_balances.balances[name] < 0
              ELSE mgr_balances.balances[name] = mgr_balances.queries[name].amount

----------------------------------------------------------------------------
(* Claims about a provider's solve_perimeterx *)

FailedToCreate == CaptchaSolution(FALSE, "", <<"Failed to create task">>)
TimedOut == CaptchaSolution(FALSE, "", <<"Timeout waiting for solution">>)

\* What holds in every state of a provider call whatever the transport does:
\* no exception has left the call, an error of the create request has ended
\* it with the failure and no poll, an error of a result request has left it
\* in the loop after a sleep of poll_interval, and what the call returned is
\* a solution that is a success or carries an error.
TransportErrorsStayInside ==
    /\ prov_pc # "raised"
    /\ (prov_last.op = "create" /\ prov_last.raised) =>
          (prov_pc = "returned" /\ prov_polls = 0 /\ prov_result = FailedToCreate)
    /\ PollErrored(prov_last) =>
          (prov_pc = "polling"
             /\ prov_elapsed >= prov_last.at + prov.poll_interval)
    /\ prov_pc = "returned" =>
          (prov_result.success \/ prov_result.error # <<>>)

\* C18 as stated: a provider's solve_perimeterx never raises on a transport
\* error, an error during task creation yields an immediate failure
\* solution, an error during a poll is followed by another poll after the
\* poll interval, and the caller always receives a CaptchaSolution.
C18_PollErrorThenPoll ==
    /\ []TransportErrorsStayInside
    /\ [][PollErrored(prov_last) => prov_last'.op = "poll"]_vars

\* C18, amended: as above, but the poll that follows an error during a poll
\* is made only if the timeout has not elapsed after the sleep; if it has,
\* the call returns the timeout failure.
C18_PollErrorThenPollOrTimeout ==
    /\ []TransportErrorsStayInside
    /\ [][PollErrored(prov_last) =>
             IF prov_elapsed < prov.timeout
             THEN prov_last'.op = "poll"
             ELSE prov_last'.op = "timeout" /\ prov_result' = TimedOut]_vars

\* A poll met a transport error, the next poll was made and gave the token.
C18_Witness ==
    /\ prov_last.op = "poll"
    /\ prov_last.after_error
    /\ prov_pc = "returned"
    /\ prov_result.success

\* The markers of a result response, per provider: success (status 1, or
\* errorId 0 with status "ready"), not ready ("CAPCHA_NOT_READY", or status
\* "processing"), and a terminal failure otherwise.
SuccessMarker(kind, response) ==
    /\ ~response.raised
    /\ IF kind = "2captcha" THEN response.status = 1
       ELSE response.errorId = 0 /\ response.status = "ready"

NotReady(kind, response) ==
    /\ ~response.raised
    /\ IF kind = "2captcha"
       THEN response.status # 1 /\ response.request = "CAPCHA_NOT_READY"
       ELSE response.errorId = 0 /\ response.status = "processing"

TerminalFailure(kind, response) ==
    /\ ~response.raised
    /\ ~SuccessMarker(kind, response)
    /\ ~NotReady(kind, response)

\* What holds in every state of the poll loop: a poll is started only
\* before the timeout; a poll that got the success marker has returned a
\* success, one that got a terminal failure has returned a failure, one that
\* got "not ready" has left the call in the loop after a sleep of
\* poll_interval; the loop was left without a terminal state only once the
\* timeout had elapsed, with the timeout error; and the polls, poll_interval
\* apart, are bounded by the timeout.
PollLoopSteps ==
    /\ prov_last.op = "poll" =>
          /\ prov_last.at < prov.timeout
          /\ SuccessMarker(prov.kind, prov_last.response) =>
                (prov_pc = "returned" /\ prov_result.success)
          /\ TerminalFailure(prov.kind, prov_last.response) =>
                (prov_pc = "returned" /\ ~prov_result.success
                   /\ prov_result # TimedOut)
          /\ NotReady(prov.kind, prov_last.response) =>
                (prov_pc = "polling"
                   /\ prov_elapsed >= prov_last.at + prov.poll_interval)
          /\ (prov_polls - 1) * prov.poll_interval < prov.timeout
    /\ prov_last.op = "timeout" =>
          (prov_pc = "returned" /\ prov_elapsed >= prov.timeout
             /\ prov_result = TimedOut)
    /\ prov_result = TimedOut => prov_last.op = "timeout"

\* C19: the poll loop always terminates: it returns success at the first
\* poll that reports the success marker, failure at the first poll that
\* reports a terminal failure, keeps polling, poll_interval apart, while the
\* task is reported not ready, and returns the timeout failure once the
\* timeout has elapsed without a terminal state.
C19_PollLoopTerminates ==
    /\ []PollLoopSteps
    /\ [][(prov_pc = "polling" /\ prov_elapsed >= prov.timeout) =>
             (prov_pc' = "returned" /\ prov_result' = TimedOut)]_vars
    /\ <>(prov_pc = "returned")

\* The task was reported not ready poll after poll until the timeout.
C19_Witness ==
    /\ prov_last.op = "timeout"
    /\ prov_polls >= 2
    /\ prov.timeout = MaxTimeout
    /\ prov_result = TimedOut

----------------------------------------------------------------------------
(* Claims about warmup_session *)

\* What warmup_session can write besides the flag: the page and the counters.
scraper_state == <<page, browser_warmed, consecutive_errors, captcha_solve_attempts,
                   captcha_solve_successes, fallback_to_dom>>

\* C20: warmup_session is idempotent: called once the session is warmed up,
\* on its own or from scrape_product_page or scrape_from_sitemap, it visits
\* no page and leaves session_warmed_up as it is, and a call of
\* warmup_session itself then changes nothing of the scraper's state.
C20_SecondWarmupIsNoop ==
    [][(last'.warmup_called /\ session_warmed_up) =>
          /\ last'.warm_visits = 0
          /\ session_warmed_up' = session_warmed_up
          /\ last'.op = "warmup_session" => scraper_state' = scraper_state]_vars

\* warmup_session was called on a session with a page that an earlier call
\* had warmed up.
C20_Witness ==
    /\ last.op = "warmup_session"
    /\ last.was_warmed
    /\ last.warm_visits = 0
    /\ page
    /\ session_warmed_up

\* C21: for any sequence of start_browser, stop_browser, scrape_product_page
\* and scrape_from_sitemap, no target product page is loaded in a browser
\* session before warmup_session has gone through the warmup pages in that
\* session.
C21_NoTargetBeforeWarmup ==
    (last.op = "visit" /\ last.loaded) => browser_warmed

\* C22: a block or a page-load failure on a warmup page is not fatal:
\* warmup_session still goes to every configured page and ends with the
\* session marked as warmed up, and the call of warmup_session makes no call
\* of the solver manager (captcha_solve_attempts and captcha_solve_successes
\* are those of _handle_captcha, the only caller of the manager) and leaves
\* consecutive_errors as it was.
C22_WarmupTroubleNotFatal ==
    /\ [](last.warmup_called =>
            /\ session_warmed_up
            /\ (~last.was_warmed /\ page) => last.warm_visits = last.warm_pages)
    /\ [][last'.op = "warmup_session" =>
             /\ consecutive_errors' = consecutive_errors
             /\ captcha_solve_attempts' = captcha_solve_attempts
             /\ captcha_solve_successes' = captcha_solve_successes
             /\ UNCHANGED <<mgr_pc, mgr_calls, mgr_result>>]_vars

\* warmup_session went through two pages of which one was blocked or failed,
\* after visits had failed.
C22_Witness ==
    /\ last.op = "warmup_session"
    /\ last.warm_trouble
    /\ last.warm_pages = 2
    /\ last.warm_visits = 2
    /\ consecutive_errors > 0
    /\ session_warmed_up

----------------------------------------------------------------------------
(* Claims about the loop of scrape_from_sitemap *)

\* scrape_from_sitemap runs or has just ended with a max_products of 1 or more.
CrawlWithMax ==
    crawl_pc \in {"loop", "returned"} /\ max_products.some /\ max_products.v >= 1

\* C23: scrape_from_sitemap honors max_products as an early-stop bound: for
\* every max_products >= 1 the count of saved records, and so the count
\* returned, never exceeds max_products, and once the count has reached
\* max_products no further URL is visited: the next step is the return.
C23_MaxProductsBoundsCrawl ==
    /\ [](CrawlWithMax =>
            /\ scraped_count <= max_products.v
            /\ crawl_result <= max_products.v)
    /\ [][(CrawlWithMax /\ crawl_pc = "loop"
               /\ scraped_count >= max_products.v) =>
             (last'.op = "return" /\ crawl_result' = scraped_count)]_vars

\* A crawl with max_products = 2 saved two records and returned 2.
C23_Witness ==
    /\ crawl_pc = "returned"
    /\ last.op = "return"
    /\ max_products = SomeInt(2)
    /\ crawl_result = 2

\* C24: every checkpoint of scrape_from_sitemap records as last_url the URL
\* of the last successfully visited page, that is of a visit whose record was
\* saved, and a checkpoint is written exactly once each time the number of
\* saved records reaches a multiple of 10, never in between: an iteration
\* writes a checkpoint exactly when it saved a record and the count is then
\* a multiple of 10.
C24_CheckpointOnTenthSave ==
    (crawl_pc = "loop" /\ last.op = "visit") =>
        (last.checkpointed <=> (last.saved /\ scraped_count % 10 = 0))

\* C25: no failure of a single page (timeout, exception, unresolved block)
\* and no failure of the solver providers aborts scrape_from_sitemap: the
\* visit returns None, the count of saved records is kept, the loop goes on
\* to the next entry when there is one, and the count returned at the end
\* is the count of all records saved.
C25_PageFailureKeepsCrawl ==
    /\ [](crawl_pc = "loop" => last.op \in {"scrape_from_sitemap", "visit", "skip"})
    /\ [][crawl_pc = "loop" =>
             /\ (last'.op = "visit" /\ ~last'.record) =>
                   (~last'.raised /\ crawl_pc' = "loop"
                      /\ scraped_count' = scraped_count)
             /\ crawl_pc' = "loop" => scraped_count' >= scraped_count
             /\ crawl_pc' # "loop" =>
                   (crawl_pc' = "returned" /\ crawl_result' = scraped_count
                      /\ (entries_left = 0
                             \/ MaxProductsReached(max_products, scraped_count)))]_vars

\* In a crawl that had saved a record, a page was blocked, the solver was
\* tried and failed, and the crawl is still in its loop with its count.
C25_Witness ==
    /\ crawl_pc = "loop"
    /\ last.op = "visit"
    /\ last.blocked /\ last.attempted /\ ~last.bypassed /\ ~last.record
    /\ scraped_count >= 1
    /\ entries_left >= 1

----------------------------------------------------------------------------
(* Claims about filter_walmart_product_urls *)

\* The strings of the claim.
ItemMarkers == { <<"/", "i", "p", "/">>, <<"/", "p", "r", "o", "d", "u", "i", "t", "/">> }
DisallowedMarkers ==
    { <<"/", "s", "e", "a", "r", "c", "h">>,
      <<"/", "r", "e", "c", "h", "e", "r", "c", "h", "e">>,
      <<"/", "c", "a", "r", "t">>,
      <<"/", "p", "a", "n", "i", "e", "r">>,
      <<"/", "s", "i", "g", "n", "-", "i", "n">>,
      <<"/", "a", "c", "c", "o", "u", "n", "t">>,
      <<"/", "k", "i", "o", "s", "k", "/">>,
      <<"+">>,
      <<"?", "f", "=">> }
Url_Widget == <<"/", "e", "n", "/", "i", "p", "/", "w", "i", "d", "g", "e", "t", "/", "1", "2", "3", "4", "5">>
Url_WidgetFacet ==
    <<"/", "e", "n", "/", "i", "p", "/", "w", "i", "d", "g", "e", "t", "/", "1", "2", "3", "4", "5", "?", "f", "=", "c", "o", "l", "o", "r">>
Url_Search == <<"/", "s", "e", "a", "r", "c", "h", "?", "q", "=", "w", "i", "d", "g", "e", "t">>

\* C26: filter_walmart_product_urls(url) is true if and only if url contains
\* an item-page marker ('/ip/' or '/produit/') and none of the disallowed
\* markers; /en/ip/widget/12345 is accepted, /en/ip/widget/12345?f=color and
\* /search?q=widget are rejected.
C26_ItemMarkerAndNoDisallowed ==
    flt_pc = "returned" =>
        /\ flt_result <=>
              /\ \E m \in ItemMarkers : InString(m, flt_url)
              /\ \A m \in DisallowedMarkers : ~InString(m, flt_url)
        /\ flt_url = Url_Widget => flt_result
        /\ flt_url \in {Url_WidgetFacet, Url_Search} => ~flt_result

\* The filter rejected /en/ip/widget/12345?f=color.
C26_Witness ==
    /\ flt_pc = "returned"
    /\ flt_url = Url_WidgetFacet
    /\ ~flt_result

\* The filter accepted /en/ip/widget/12345.
C26_Accepted ==
    /\ flt_pc = "returned"
    /\ flt_url = Url_Widget
    /\ flt_result

----------------------------------------------------------------------------
(* Claims about the traversal without recursion *)

\* C27: nested sitemap URLs are appended to the queue only when recursive is
\* true; with recursive = false parse_sitemap fetches the root URL only, and
\* yields nothing when the root is an index.
C27_NestedQueuedOnlyWhenRecursive ==
    ~sm_args.recursive =>
        /\ enqueued = <<sm_args.url>>
        /\ Len(sitemap_queue) <= 1
        /\ Len(fetched) <= 1
        /\ \A i \in 1..Len(fetched) : fetched[i].url = sm_args.url
        /\ (fetched # <<>> /\ fetched[1].kind = "index") => yielded = <<>>

\* Without recursion the root was fetched, was an index, and the traversal
\* ended having yielded nothing.
C27_Witness ==
    /\ ~sm_args.recursive
    /\ sm_pc = "done"
    /\ Len(fetched) = 1 /\ fetched[1].kind = "index"
    /\ yielded = <<>>

----------------------------------------------------------------------------
(* Claims about _parse_sitemap_xml *)

\* The roots of the claim: an index and a url-set.
IndexRoots == { <<"{", "s", "m", "}", "s", "i", "t", "e", "m", "a", "p", "i", "n", "d", "e", "x">> }
UrlSetRoots == { <<"U", "r", "l", "S", "e", "t">> }

\* The elements of the parsed document with the tag, in the form (namespaced
\* or not), whose loc is there in the same form and not empty.
WithLoc(tag, ns) ==
    SelectSeq(xml_content.elements,
              LAMBDA e : /\ e.tag = tag /\ e.ns = ns
                         /\ e.loc.present /\ e.loc.ns = ns /\ e.loc.text # <<>>)

\* The locs a document gives for a tag: those of the namespaced form, those
\* of the form without namespace only when the namespaced form gave none.
ExpectedLocs(tag) ==
    LET found == IF WithLoc(tag, TRUE) # <<>> THEN WithLoc(tag, TRUE)
                 ELSE WithLoc(tag, FALSE)
    IN [i \in 1..Len(found) |-> Strip(found[i].loc.text)]

\* C28: a parsed document is an index or a url-set or neither, never both: it
\* never gives both nested URLs and entries. Both the namespaced and the
\* non-namespaced form of the elements are accepted, the non-namespaced lookup
\* counting only when the namespaced one found nothing, and an element whose
\* loc is missing or empty is skipped.
C28_IndexOrUrlSetNeverBoth ==
    xml_pc = "returned" =>
        /\ ~(xml_result.sitemap_urls # <<>> /\ xml_result.url_entries # <<>>)
        /\ xml_result.sitemap_urls =
              IF xml_content.root \in IndexRoots THEN ExpectedLocs("sitemap") ELSE <<>>
        /\ [i \in 1..Len(xml_result.url_entries) |-> xml_result.url_entries[i].loc] =
              IF xml_content.root \in UrlSetRoots THEN ExpectedLocs("url") ELSE <<>>

\* A url-set held a namespaced <url> with a loc and a <url> without namespace
\* with a loc: only the namespaced one was returned.
C28_Witness ==
    /\ xml_pc = "returned"
    /\ xml_content.root \in UrlSetRoots
    /\ WithLoc("url", TRUE) # <<>> /\ WithLoc("url", FALSE) # <<>>
    /\ Len(xml_result.url_entries) = 1

\* An index held a <sitemap> without namespace with a loc and one whose loc
\* is empty: the first was returned, the second skipped.
C28_Skipped ==
    /\ xml_pc = "returned"
    /\ xml_content.root \in IndexRoots
    /\ Len(xml_content.elements) = 2
    /\ xml_content.elements[2].loc = Loc(FALSE, <<>>)
    /\ Len(xml_result.sitemap_urls) = 1

----------------------------------------------------------------------------
(* Claims about duplicates in a traversal *)

\* A traversal that drops no entry: no since, no url_filter, no max_urls.
Unfiltered ==
    ~sm_args.since.some /\ sm_args.url_filter = "none" /\ ~sm_args.max_urls.some

\* C29: duplicate sitemap URLs are filtered, duplicate content URLs are not: a
\* sitemap URL dequeued again is not fetched again, while every url-set
\* document fetched appends all its entries to what is yielded, so a product
\* URL held by two documents, or twice by one, is yielded once per occurrence.
C29_SitemapsDedupedContentNot ==
    /\ [](\A i, j \in 1..Len(fetched) : fetched[i].url = fetched[j].url => i = j)
    /\ [][((sitemap_queue # <<>> /\ Head(sitemap_queue) \in visited_sitemaps)
              => (fetched' = fetched /\ yielded' = yielded))
           /\ ((Unfiltered /\ fetched' # fetched /\ sm_last'.op = "urlset")
              => yielded' = yielded \o sm_last'.entries)]_vars

\* The second document fetched was a url-set and yielded a location; the
\* third held that location twice and yielded it twice more.
C29_Witness ==
    /\ Unfiltered
    /\ Len(fetched) = 3
    /\ fetched[2].kind = "urlset"
    /\ sm_last.op = "urlset" /\ sm_last.url = fetched[3].url
    /\ Len(sm_last.entries) = 2
    /\ Len(yielded) = 3
    /\ \A i \in 1..3 : yielded[i].loc = yielded[1].loc

----------------------------------------------------------------------------
(* Claims about the order of events within a visit *)

\* The positions of the block checks among the events.
BlockChecks(events) ==
    { i \in 1..Len(events) : events[i] \in {"blocked", "not_blocked"} }

\* The last block check before position i was negative.
NegativeCheckBefore(events, i) ==
    \E j \in BlockChecks(events) :
        /\ j < i
        /\ events[j] = "not_blocked"
        /\ \A k \in BlockChecks(events) : k < i => k <= j

\* C30: within one visit extraction runs only after the block check, and
\* scrape_product_page returns a record only when the most recent block check
\* was negative (not blocked, or no longer blocked after token injection and
\* reload); token injection and reload happen only after the solver manager
\* returned a successful solution.
C30_ExtractionAfterNegativeCheck ==
    last.op = "visit" =>
        LET ev == last.events IN
        /\ \A i \in 1..Len(ev) :
              /\ ev[i] = "extract" => NegativeCheckBefore(ev, i)
              /\ ev[i] \in {"inject", "reload"} =>
                    \E j \in 1..(i - 1) : ev[j] = "solve_ok"
        /\ last.record =>
              /\ \E i \in 1..Len(ev) : ev[i] = "extract"
              /\ NegativeCheckBefore(ev, Len(ev) + 1)
              /\ last.blocked => \E i, j \in 1..Len(ev) :
                                   i < j /\ ev[i] = "inject" /\ ev[j] = "reload"

\* A visit found the page blocked, the token was injected, the page reloaded
\* and found no longer blocked, and a record was returned.
C30_Witness ==
    /\ last.op = "visit"
    /\ last.blocked /\ last.bypassed
    /\ last.events =
          <<"goto", "blocked", "solve_ok", "inject", "reload", "not_blocked", "extract">>
    /\ last.record

----------------------------------------------------------------------------
(* Claims about max_urls as any supplied value *)

\* C31: for every max_urls value supplied, 0 included, the number of entries
\* parse_sitemap yields never exceeds max_urls, and once max_urls entries
\* have been yielded the traversal has stopped.
C31_NeverExceedsAnyMaxUrls ==
    sm_args.max_urls.some =>
        /\ Len(yielded) <= sm_args.max_urls.v
        /\ (Len(yielded) = sm_args.max_urls.v /\ yielded # <<>>) => sm_pc = "done"

----------------------------------------------------------------------------
(* Claims about gzip handling in the fetch *)

\* The response is one the fetch tries to decompress, and decompression fails.
DecompressionFails ==
    /\ ~fetch_response.http_error
    /\ fetch_response.gz_url \/ fetch_response.gz_header
    /\ ~fetch_response.body.gzipped

\* C32: when the URL ends in .gz or the transport reports gzip encoding, a
\* decompression failure is not an error: the fetch returns the raw bytes
\* and they are parsed as they are; if they are malformed XML the document
\* gives no nested sitemap and no entry, and no exception leaves the try
\* block, so the traversal goes on.
C32_DecompressionFailureParsesRaw ==
    DecompressionFails =>
        /\ fetch_pc # "raised"
        /\ fetch_pc \in {"fetched", "parsed"} => fetch_content = fetch_response.body
        /\ fetch_pc = "parsed" =>
              /\ fetch_result = ParseSitemapContent(fetch_response.body.payload)
              /\ ~fetch_response.body.payload.wellformed =>
                    (fetch_result.sitemap_urls = <<>> /\ fetch_result.url_entries = <<>>)

\* Decompression failed on malformed bytes, which were parsed to nothing.
C32_Witness ==
    /\ DecompressionFails
    /\ ~fetch_response.body.payload.wellformed
    /\ fetch_pc = "parsed"
    /\ fetch_result.url_entries = <<>>

\* Decompression failed on a plain url-set, which gave its entry.
C32_RawUrlSet ==
    /\ DecompressionFails
    /\ fetch_pc = "parsed"
    /\ Len(fetch_result.url_entries) = 1

----------------------------------------------------------------------------
(* Claims about the order of provider calls in the manager *)

\* C33: in one solve_perimeterx call of the manager the fallback provider is
\* never called before the primary has failed all max_retries attempts (or
\* the primary is not initialized), no provider is called after a success,
\* each provider is called at most max_retries times, with a fallback equal
\* to the primary at most max_retries calls are made in all, and a provider
\* that is neither primary nor fallback is never called.
C33_PrimaryThenFallback ==
    mgr_pc \in {"returned", "raised"} =>
        /\ \A i \in 1..Len(mgr_calls) :
              /\ mgr_calls[i].provider \in {mgr.primary_provider, mgr.fallback_provider}
              /\ mgr_calls[i].provider \in mgr.solvers
              /\ i < Len(mgr_calls) => ~CallSucceeded(mgr_calls[i])
              /\ mgr_calls[i].provider # mgr.primary_provider =>
                    \/ mgr.primary_provider \notin mgr.solvers
                    \/ /\ Cardinality({ j \in CallsTo(mgr.primary_provider) : j < i })
                             = mgr.max_retries
                       /\ \A j \in CallsTo(mgr.primary_provider) :
                             j < i /\ ~CallSucceeded(mgr_calls[j])
        /\ \A p \in ProviderNames : Cardinality(CallsTo(p)) <= mgr.max_retries
        /\ mgr.fallback_provider = mgr.primary_provider =>
              Len(mgr_calls) <= mgr.max_retries

\* The primary failed max_retries times, then the fallback was called, while
\* both were initialized.
C33_Witness ==
    /\ mgr_pc = "returned"
    /\ mgr.max_retries >= 2
    /\ {mgr.primary_provider, mgr.fallback_provider} \subseteq mgr.solvers
    /\ mgr.primary_provider # mgr.fallback_provider
    /\ Len(mgr_calls) > mgr.max_retries
    /\ mgr_calls[Len(mgr_calls)].provider = mgr.fallback_provider

\* The fallback equals the primary and max_retries calls were made.
C33_SameProvider ==
    /\ mgr_pc = "returned"
    /\ mgr.fallback_provider = mgr.primary_provider
    /\ mgr.max_retries >= 2
    /\ Len(mgr_calls) = mgr.max_retries

\* C34: whenever is_available() is true and max_retries >= 1, a
\* solve_perimeterx call that returns a failure has made at least one call to
\* an initialized provider.
C34_AvailableManagerTriesOne ==
    (mgr_pc = "returned" /\ IsAvailable(mgr) /\ mgr.max_retries >= 1
        /\ ~mgr_result.success) =>
        \E i \in 1..Len(mgr_calls) : mgr_calls[i].provider \in mgr.solvers

----------------------------------------------------------------------------
(* Claims about task creation in a provider *)

\* The creation request met a response carrying the success marker and a
\* task id.
CreationSucceeded(step) ==
    step.op = "create" /\ ~step.raised /\ step.response.ok
        /\ step.response.task # NoTask

\* C35: in a provider's solve_perimeterx a poll is issued only for a task
\* whose creation succeeded: when task creation fails (error response or
\* transport error) no poll request is made and the result is a failure
\* solution.
C35_PollOnlyAfterCreation ==
    /\ []((prov_last.op = "create" /\ ~CreationSucceeded(prov_last)) =>
            /\ prov_pc = "returned"
            /\ prov_polls = 0
            /\ ~prov_result.success
            /\ prov_result.error # <<>>)
    /\ [][/\ (prov_last'.op = "poll") =>
                (prov_pc = "polling" /\ prov_last.op \in {"create", "poll"})
          /\ (prov_pc # "polling" /\ prov_pc' = "polling") =>
                CreationSucceeded(prov_last')
          /\ (prov_polls' # prov_polls) => prov_last'.op = "poll"
          /\ prov_pc \notin {"returned", "raised"}]_vars

\* The creation request met a transport error: the call returned a failure
\* without a poll.
C35_Witness ==
    /\ prov_last.op = "create"
    /\ prov_last.raised
    /\ prov_pc = "returned"
    /\ prov_polls = 0
    /\ ~prov_result.success

----------------------------------------------------------------------------
(* Claims about the solve counters of the scraper *)

\* The solver manager returned a successful solution during the visit.
ManagerSolved(c) == \E i \in 1..Len(c.events) : c.events[i] = "solve_ok"

\* C36: captcha_solve_successes never exceeds captcha_solve_attempts; a
\* blocked visit raises captcha_solve_attempts by exactly 1 when the solver is
\* available and not at all when it is unavailable; captcha_solve_successes
\* is raised only when the manager returned a successful solution, which is
\* also the only case in which a block is reported as bypassed; nothing but a
\* blocked visit changes the counters.
C36_SuccessesWithinAttempts ==
    /\ [](captcha_solve_successes <= captcha_solve_attempts)
    /\ [][/\ captcha_solve_attempts' =
                IF last'.op = "visit" /\ last'.blocked /\ IsAvailable(mgr)
                THEN captcha_solve_attempts + 1 ELSE captcha_solve_attempts
          /\ captcha_solve_successes' \in
                {captcha_solve_successes, captcha_solve_successes + 1}
          /\ (captcha_solve_successes' # captcha_solve_successes) =>
                (last'.op = "visit" /\ last'.blocked /\ ManagerSolved(last'))
          /\ (last'.op = "visit" /\ last'.bypassed) =>
                (ManagerSolved(last')
                   /\ captcha_solve_successes' = captcha_solve_successes + 1)]_vars

\* A blocked visit counted an attempt and no success: the manager's solution
\* was a failure.
C36_Witness ==
    /\ last.op = "visit" /\ last.blocked
    /\ IsAvailable(mgr)
    /\ ~ManagerSolved(last)
    /\ captcha_solve_attempts = 1
    /\ captcha_solve_successes = 0

\* A blocked visit with no solver available counted nothing.
C36_Unavailable ==
    /\ last.op = "visit" /\ last.blocked
    /\ ~IsAvailable(mgr)
    /\ captcha_solve_attempts = 0

----------------------------------------------------------------------------
(* Claims about the visited set and failed sitemap URLs *)

\* The positions of the fetches that failed: the request raised or the body
\* was malformed.
FailedFetches ==
    { i \in 1..Len(fetched) : fetched[i].kind \in {"fetch_error", "malformed"} }

\* C37: a sitemap URL is marked visited before it is fetched, so a URL whose
\* fetch or parse failed is in the visited set and is never fetched again in
\* the traversal, even when a later index document references it again; the
\* visited set is empty when parse_sitemap is called.
C37_FailedUrlNeverRefetched ==
    /\ [](/\ sm_last.op = "call" => visited_sitemaps = {}
          /\ \A i \in 1..Len(fetched) : fetched[i].url \in visited_sitemaps
          /\ \A i \in FailedFetches :
                \A j \in 1..Len(fetched) : j # i => fetched[j].url # fetched[i].url)
    /\ [][(fetched' # fetched) =>
             /\ Len(fetched') = Len(fetched) + 1
             /\ fetched'[Len(fetched')].url = Head(sitemap_queue)
             /\ Head(sitemap_queue) \notin visited_sitemaps
             /\ visited_sitemaps' = visited_sitemaps \cup {Head(sitemap_queue)}]_vars

\* The fetch of a nested sitemap failed, a later index referenced it again,
\* and it was skipped when dequeued.
C37_Witness ==
    /\ \E i \in FailedFetches : i > 1 /\ fetched[i].url \in skipped
    /\ Len(fetched) >= 3
    /\ fetched[Len(fetched)].kind = "index"

----------------------------------------------------------------------------
(* Claims about the strict filter in the crawl loop *)

\* Every URL the strict filter accepts is accepted by the predicate of
\* get_product_urls, over the URLs the filter is tried on.
StrictWithinDiscovery ==
    \A url \in FilterUrls : filter_walmart_product_urls(url) => IsItemPageUrl(url)

\* C38: every URL the crawl loop passes to scrape_product_page satisfies
\* filter_walmart_product_urls, and every URL that filter accepts is accepted
\* by the item-page predicate of get_product_urls; an entry the filter
\* rejects is skipped without a page load and without a change of
\* consecutive_errors.
C38_OnlyFilteredUrlsVisited ==
    /\ [](/\ StrictWithinDiscovery
          /\ (last.op = "visit" /\ last.url # <<>>) =>
                (filter_walmart_product_urls(last.url) /\ IsItemPageUrl(last.url))
          /\ last.op = "skip" =>
                (~filter_walmart_product_urls(last.url) /\ ~last.loaded))
    /\ [][/\ (crawl_pc = "loop" /\ crawl_pc' # "returned") =>
                (last'.op \in {"visit", "skip"} /\ last'.url \in CrawlLocs)
          /\ last'.op = "skip" =>
                /\ consecutive_errors' = consecutive_errors
                /\ page' = page
                /\ scraped_count' = scraped_count
                /\ crawl_pc' = crawl_pc]_vars

\* After failed visits the crawl loop skipped an entry the filter rejects.
C38_Witness ==
    /\ last.op = "skip"
    /\ crawl_pc = "loop"
    /\ consecutive_errors >= 2
    /\ ~filter_walmart_product_urls(last.url)
    /\ IsItemPageUrl(last.url)

----------------------------------------------------------------------------
(* Claims about the browser session *)

C39_PartialStart ==
    /\ ses_last.op = "finally"
    /\ ses_pc = "raised"
    /\ ses_last.before.playwright
    /\ ~ses_last.before.browser

\* start_browser called on a started controller.
C39_StartedAgain ==
    /\ ses_last.op = "start_browser"
    /\ ses_last.before = AllHandles

\* stop_browser called on a stopped controller.
C39_StoppedAgain ==
    /\ ses_last.op = "stop_browser"
    /\ ses_last.before = NoHandles

====
